---- MODULE Spec2Model ----
(***************************************************************************)
(* Model of the Streamin orchestration layer.                              *)
(*                                                                         *)
(* Part 1: MultistreamService (src/src/services/multistreamService.js),    *)
(*         the stream fan-out supervisor.  Specification: Spec.            *)
(* Part 2: BasePlatform outbound queue                                     *)
(*         (src/src/services/socialMedia/basePlatform.js), the             *)
(*         rate-limited queue of one adapter.  Specification: SpecQueue.   *)
(*                                                                         *)
(* Scheduling model (Node.js): a handler runs to completion up to its next *)
(* `await`.  createStreamProcess settles its promise synchronously         *)
(* (multistreamService.js:149-150), so the continuation of the `await` at  *)
(* line 63 is a promise job: other calls of the service's public methods   *)
(* made in the same tick run before it, but timers and child-process       *)
(* events (event-loop tasks) run only when no continuation is pending.     *)
(***************************************************************************)
EXTENDS Integers, Sequences, FiniteSets, TLC

(***************************************************************************)
(* Bounds                                                                  *)
(***************************************************************************)
NumPlatforms == 3      \* how many entries of config.platforms are modelled
MaxCalls == 2          \* how many startMultistream calls are made in a run
MaxMsgs == 3           \* how many sendMessage calls are made in a run
MaxTime == 8           \* the clock stops here
messageRateLimit == 2  \* this.messageRateLimit, in clock ticks
maxReconnectAttempts == 3  \* this.maxReconnectAttempts
reconnectDelay == 1    \* this.reconnectDelay, in clock ticks
MaxChains == 2         \* how many reconnect timers are pending at once
NumAdapters == 3       \* how many adapters of SocialMediaManager are modelled
MaxInbound == 3        \* how many chat messages arrive in a run
MaxPending == 2        \* how many handleIncomingMessage calls are unfinished at once
maxMessageHistory == 2 \* this.maxMessageHistory
cacheExpiryTime == 3   \* this.cacheExpiryTime, in clock ticks
sessionTimeout == 4    \* sessionTimeout of cleanup(), in clock ticks
MaxErrors == 11        \* how many recordError calls are made in a run of SpecErrorLog

StreamIds == {"demo", "live"}

(***************************************************************************)
(* Part 1 - MultistreamService                                             *)
(***************************************************************************)
VARIABLES
  config,         \* config.platforms: platform -> [enabled, rtmpUrl, streamKey]
  activeStreams,  \* Map streamId -> streamInfo object (0 = no entry); an
                  \* object is named by the call that created it
  streamInfo,     \* the streamInfo objects: [status, ffmpegProcesses]
  streamStats,    \* Map streamId -> [platforms, errors, recorded] or NoStats;
                  \* recorded: every error passed to recordError since the
                  \* record was created (history)
  statsTimers,    \* pending `setTimeout(() => streamStats.delete(id), 300000)`
  proc,           \* the ffmpeg commands created by createStreamProcess
  call,           \* the startMultistream calls: position and locals
  nextCall,       \* number of startMultistream calls made so far
  lastOp          \* whether the last handler was a health check or an 'error' (history)

VARIABLES
  chatConnected,    \* this.chatConnected
  rateLimitQueue,   \* this.rateLimitQueue: the queued messages, head first
  lastMessageTime,  \* this.lastMessageTime
  now,              \* Date.now()
  timers,           \* due times of the pending setTimeout(processMessageQueue)
  inflight,         \* messages whose sendMessageImplementation is running
  future,           \* the promise sendMessage returned: "pending", "true", "false"
  sentLog,          \* the transmissions started so far: [msg, t] (history)
  enqueued          \* the messages pushed on the queue, in order, with times (history)

VARIABLES
  publishing,     \* the inbound streams that are being published to the RTMP server
  startDelay,     \* per stream, the pending 2 s timers of the postPublish hook
  boot,           \* where initializeAsyncServices() of the server is: "start",
                  \* "chatbot" and "platforms" (at its awaits), "done", "failed"
  attempted,      \* the adapters SocialMediaManager.initialize() has started on
  settled         \* the adapters whose initialize()/connectChat() have settled

bootVars == <<boot, attempted, settled>>
hookVars == <<publishing, startDelay, bootVars>>

streamVars == <<config, activeStreams, streamInfo, streamStats, statsTimers,
                proc, call, nextCall, lastOp>>
queueVars == <<chatConnected, rateLimitQueue, lastMessageTime, now, timers,
               inflight, future, sentLog, enqueued>>

VARIABLES
  isConnected,        \* this.isConnected
  reconnectAttempts,  \* this.reconnectAttempts
  reconnectTimers,    \* the pending setTimeout of attemptReconnect:
                      \* [due, delay, n, cause]
  chatEnabled,        \* this.config.chatEnabled
  cleaned,            \* cleanup() has completed (history)
  streak              \* reconnect attempts scheduled since the adapter was last
                      \* fully connected (history); n of a timer is its number

VARIABLES
  variant,        \* the class of the adapter
  credentials,    \* hasRequiredCredentials()
  client,         \* the connection object of the variant (this.chatWs of Twitch,
                  \* this.client of Discord, this.bot of Telegram): "null",
                  \* "open" (connected, polling) or "closed"
  closePending,   \* the 'close' event of a socket closed by disconnectChat()
                  \* has not been delivered yet
  authTimer,      \* the 2 s timer of TwitchPlatform.connectChat() is pending
  isStreaming,    \* this.isStreaming
  ffmpegProcess,  \* this.ffmpegProcess and its process: "none", "spawned",
                  \* "running", "dead" (ended, handle kept) or "signalled"
                  \* (killed, handle cleared, event pending)
  axes,           \* the pairs (chatConnected, isStreaming) the adapter has been
                  \* in (history, kept by the actions of part 3)
  exited,         \* process.exit(1) was called by the uncaughtException handler
  chatOff         \* disconnectChat() was called and has returned, and the owner
                  \* has not connected the adapter since (history)

adapterVars == <<variant, credentials, client, closePending, authTimer, isStreaming,
                 ffmpegProcess, axes, exited, chatOff>>

reconnVars == <<isConnected, reconnectAttempts, reconnectTimers, chatEnabled,
                cleaned, streak, adapterVars>>

VARIABLES
  chatbotEnv,      \* process.env.CHATBOT_ENABLED === 'true'
  chatbotService,  \* this.chatbotService is set (setChatbotService was called)
  platformChat,    \* platform.chatConnected of each adapter of this.platforms
  messageHistory,  \* this.messageHistory: the inbound messages kept, oldest first
  inbound,         \* how many chat messages have arrived
  handler,         \* the handleIncomingMessage calls: position and the source platform
  delivery,         \* per call and adapter, the sendMessage of the fan-out:
                   \* "none", "pending", "sent" or "failed"
  events           \* per message, what handleIncomingMessage did with it, in
                   \* order: "stored", "emitted", "requested", "fanned" (history)

managerVars == <<chatbotEnv, chatbotService, platformChat, messageHistory, inbound,
                 handler, delivery, events>>

VARIABLES
  rasaIsConnected,      \* RasaChatbotService: this.isConnected
  confidenceThreshold,  \* this.config.confidenceThreshold, in tenths
  responseCache,        \* this.responseCache in insertion order:
                        \* [pattern, confidence, timestamp]
  pendingRasa,          \* the texts of the processMessage calls awaiting sendToRasa
  lastResponse,         \* what the last finished processMessage call returned (history)
  sessionStore          \* this.sessionStore: a set of [key, lastActivity]

chatbotVars == <<rasaIsConnected, confidenceThreshold, responseCache, pendingRasa,
                 lastResponse, sessionStore>>
otherVars == <<managerVars, chatbotVars, hookVars>>
vars == <<streamVars, queueVars, reconnVars, otherVars>>

PlatformNames == <<"twitch", "youtube", "facebook", "custom1", "custom2">>
PlatformOrder == SubSeq(PlatformNames, 1, NumPlatforms)
Platforms == {PlatformOrder[i] : i \in 1..NumPlatforms}
Calls == 1..MaxCalls

NoStats == [none |-> TRUE]
ErrorLogLimit == 10

\* config.platforms as built from the environment: the three built-in targets
\* always have an rtmpUrl and are enabled iff a stream key is set; a custom
\* target is enabled iff both its url and its key are set.
PlatformConfigs(p) ==
  IF p \in {"custom1", "custom2"}
    THEN {[enabled |-> u /\ k, rtmpUrl |-> u, streamKey |-> k] :
            u \in BOOLEAN, k \in BOOLEAN}
    ELSE {[enabled |-> k, rtmpUrl |-> TRUE, streamKey |-> k] : k \in BOOLEAN}

\* getEnabledPlatforms without the checks of enabled and streamKey (mutant)
getEnabledPlatforms_UrlOnly ==
  SelectSeq(PlatformOrder, LAMBDA p : config[p].rtmpUrl)

\* getEnabledPlatforms(): the entries of config.platforms, in order, that are
\* enabled and have both rtmpUrl and streamKey.
getEnabledPlatforms ==
  SelectSeq(PlatformOrder,
            LAMBDA p : config[p].enabled /\ config[p].rtmpUrl /\ config[p].streamKey)

\* An ffmpeg command: state is "none" (not created), "run" (command.run()
\* called), "started" ('start' emitted) or "exited" ('error' or 'end' emitted);
\* signalled records that process.kill('SIGTERM') was called on it.
NoProc == [state |-> "none", streamId |-> "", signalled |-> FALSE]
NoInfo == [status |-> "none", ffmpegProcesses |-> <<>>]
IdleCall == [pc |-> "idle", streamId |-> "", idx |-> 0, pending |-> "none",
             failed |-> {}, error |-> ""]

\* The mutable state of the service as one value, so that the methods can be
\* composed the way the code calls them.
Current ==
  [activeStreams |-> activeStreams, streamInfo |-> streamInfo,
   streamStats |-> streamStats, statsTimers |-> statsTimers, proc |-> proc]

Commit(S) ==
  /\ activeStreams' = S.activeStreams
  /\ streamInfo' = S.streamInfo
  /\ streamStats' = S.streamStats
  /\ statsTimers' = S.statsTimers
  /\ proc' = S.proc

RelayPlatforms(info) ==
  {info.ffmpegProcesses[i].platform : i \in DOMAIN info.ffmpegProcesses}

\* recordError that loses the error (mutant)
recordError_Dropped(S, sid, p, err) == S

\* recordError that keeps the first 10 errors, slice(0, 10) (mutant)
recordError_KeepsOldest(S, sid, p, err) ==
  IF S.streamStats[sid] = NoStats THEN S
  ELSE LET pushed == Append(S.streamStats[sid].errors, [platform |-> p, error |-> err])
           kept == IF Len(pushed) > ErrorLogLimit
                     THEN SubSeq(pushed, 1, ErrorLogLimit)
                     ELSE pushed
       IN [S EXCEPT !.streamStats[sid].errors = kept,
                    !.streamStats[sid].recorded =
                       Append(@, [platform |-> p, error |-> err])]

\* recordError(streamId, platform, error), lines 261-275
recordError(S, sid, p, err) ==
  IF S.streamStats[sid] = NoStats THEN S
  ELSE LET pushed == Append(S.streamStats[sid].errors, [platform |-> p, error |-> err])
           kept == IF Len(pushed) > ErrorLogLimit
                     THEN SubSeq(pushed, Len(pushed) - ErrorLogLimit + 1, Len(pushed))
                     ELSE pushed
       IN [S EXCEPT !.streamStats[sid].errors = kept,
                    !.streamStats[sid].recorded =
                       Append(@, [platform |-> p, error |-> err])]

\* updatePlatformStatus that marks every relay of the stream (mutant)
updatePlatformStatus_AllRelays(S, sid, p, status) ==
  IF S.streamStats[sid] = NoStats THEN S
  ELSE [S EXCEPT !.streamStats[sid].platforms = [q \in Platforms |-> status]]

\* updatePlatformStatus(streamId, platform, status)
updatePlatformStatus(S, sid, p, status) ==
  IF S.streamStats[sid] = NoStats THEN S
  ELSE [S EXCEPT !.streamStats[sid].platforms[p] = status]

\* stopMultistream without the try/catch around process.kill: the first kill
\* that throws ends the forEach and the clean-up after it (mutant)
stopMultistream_AbortOnThrow(S, sid, throws) ==
  LET o == S.activeStreams[sid] IN
  IF o = 0 THEN S
  ELSE LET relays == S.streamInfo[o].ffmpegProcesses
           reached == {relays[i].platform : i \in
                         {j \in DOMAIN relays :
                            \A k \in 1..(j - 1) : relays[k].platform \notin throws}}
           thrown == \E i \in DOMAIN relays : relays[i].platform \in throws
       IN [S EXCEPT
             !.proc[o] = [p \in Platforms |->
                            IF p \in reached
                              THEN [@[p] EXCEPT !.signalled = TRUE]
                              ELSE @[p]],
             !.activeStreams[sid] = IF thrown THEN @ ELSE 0,
             !.statsTimers[sid] = IF thrown THEN @ ELSE @ + 1]

\* stopMultistream that leaves the entry in activeStreams (mutant)
stopMultistream_KeepsEntry(S, sid, throws) ==
  LET o == S.activeStreams[sid] IN
  IF o = 0 THEN S
  ELSE [S EXCEPT
          !.proc[o] = [p \in Platforms |->
                         IF p \in RelayPlatforms(S.streamInfo[o])
                           THEN [@[p] EXCEPT !.signalled = TRUE]
                           ELSE @[p]],
          !.statsTimers[sid] = @ + 1]

\* stopMultistream(streamId); `throws` are the relays whose process.kill throws
\* (caught per relay at lines 168-173); signalled = kill was called.
stopMultistream(S, sid, throws) ==
  LET o == S.activeStreams[sid] IN
  IF o = 0 THEN S
  ELSE LET relays == RelayPlatforms(S.streamInfo[o])
       IN [S EXCEPT
             !.proc[o] = [p \in Platforms |->
                            IF p \in relays
                              THEN [@[p] EXCEPT !.signalled = TRUE]
                              ELSE @[p]],
             !.activeStreams[sid] = 0,
             !.statsTimers[sid] = @ + 1]

\* the value stopMultistream returns
stopResult(S, sid) == S.activeStreams[sid] # 0

\* the value startMultistream returns for call c, line 84
startResult(S, c) ==
  [activePlatforms |-> Len(S.streamInfo[c].ffmpegProcesses),
   totalPlatforms |-> Len(getEnabledPlatforms)]

\* getStreamStatus(streamId), lines 200-219: "null" when the stream is not
\* registered
getStreamStatus(S, sid) ==
  IF S.activeStreams[sid] = 0 THEN [status |-> "null"]
  ELSE [status |-> S.streamInfo[S.activeStreams[sid]].status,
        platforms |-> S.streamInfo[S.activeStreams[sid]].ffmpegProcesses,
        stats |-> S.streamStats[sid]]

\* The relays process.kill could be called on by stopMultistream(sid).
KillTargets(S, sid) ==
  IF S.activeStreams[sid] = 0 THEN {}
  ELSE RelayPlatforms(S.streamInfo[S.activeStreams[sid]])

\* No continuation of an `await` is queued: the event loop may run a task.
NoJobPending == \A c \in Calls : call[c].pc # "await"

\* createStreamProcess(streamId, inputPath, platform, options) for call c:
\* either the executor throws (the promise rejects, nothing runs) or
\* command.run() is called and the promise resolves with the command.
createStreamProcess(S, c, sid, p, ok) ==
  IF ok THEN [S EXCEPT !.proc[c][p] = [state |-> "run", streamId |-> sid,
                                       signalled |-> FALSE]]
  ELSE S

\* lastOp records a health check, or the 'error' event of a command; any
\* other handler resets it.
NoOp == [op |-> "other", sid |-> "", c |-> 0, p |-> ""]
Op(name, sid, c, p) == [op |-> name, sid |-> sid, c |-> c, p |-> p]

\* The third built-in target is explored with FACEBOOK_STREAM_KEY unset.
KeylessTargets == {"facebook"}

StreamInit ==
  /\ config \in [Platforms -> UNION {PlatformConfigs(p) : p \in Platforms}]
  /\ \A p \in Platforms : config[p] \in PlatformConfigs(p)
  /\ \A p \in Platforms \cap KeylessTargets : ~config[p].streamKey
  /\ activeStreams = [s \in StreamIds |-> 0]
  /\ streamInfo = [c \in Calls |-> NoInfo]
  /\ streamStats = [s \in StreamIds |-> NoStats]
  /\ statsTimers = [s \in StreamIds |-> 0]
  /\ proc = [c \in Calls |-> [p \in Platforms |-> NoProc]]
  /\ call = [c \in Calls |-> IdleCall]
  /\ nextCall = 0
  /\ lastOp = NoOp
  /\ publishing = {}
  /\ startDelay = [s \in StreamIds |-> 0]

\* startMultistream, lines 27-63: from the call to the first `await`.
StartBody(sid) ==
  /\ nextCall < MaxCalls
  /\ LET c == nextCall + 1
         enabled == getEnabledPlatforms
     IN /\ nextCall' = c
        /\ lastOp' = NoOp
        /\ IF activeStreams[sid] # 0
             THEN \* line 30 throws; the catch at 86-89 calls stopMultistream
                  \E throws \in SUBSET KillTargets(Current, sid) :
                    /\ Commit(stopMultistream(Current, sid, throws))
                    /\ call' = [call EXCEPT ![c] = [IdleCall EXCEPT
                                   !.pc = "threw", !.streamId = sid,
                                   !.error = "AlreadyActive"]]
           ELSE IF Len(enabled) = 0
             THEN \* line 35 throws; the catch calls stopMultistream
                  /\ Commit(stopMultistream(Current, sid, {}))
                  /\ call' = [call EXCEPT ![c] = [IdleCall EXCEPT
                                 !.pc = "threw", !.streamId = sid,
                                 !.error = "NoPlatforms"]]
           ELSE \E ok \in BOOLEAN :
                  LET S1 == [Current EXCEPT
                               !.streamInfo[c] = [status |-> "starting",
                                                  ffmpegProcesses |-> <<>>],
                               !.activeStreams[sid] = c,
                               !.streamStats[sid] =
                                  [platforms |-> [p \in Platforms |-> "none"],
                                   errors |-> <<>>, recorded |-> <<>>]]
                      S2 == createStreamProcess(S1, c, sid, enabled[1], ok)
                  IN /\ Commit(S2)
                     /\ call' = [call EXCEPT ![c] = [IdleCall EXCEPT
                                    !.pc = "await", !.streamId = sid, !.idx = 1,
                                    !.pending = IF ok THEN "resolved" ELSE "rejected"]]
  /\ UNCHANGED <<config, queueVars, reconnVars, managerVars, chatbotVars>>

\* a caller invokes startMultistream(sid, inputPath)
StartMultistream(sid) == StartBody(sid) /\ UNCHANGED hookVars

\* startMultistream, lines 63-91: the continuation of the `await` for call c.
ResumeStart(c) ==
  /\ call[c].pc = "await"
  /\ LET sid == call[c].streamId
         enabled == getEnabledPlatforms
         p == enabled[call[c].idx]
         ok == call[c].pending = "resolved"
         \* lines 64-72
         S1 == IF ok
                 THEN [Current EXCEPT !.streamInfo[c].ffmpegProcesses =
                          Append(@, [platform |-> p, status |-> "running"])]
                 ELSE recordError(Current, sid, p, "start failed")
         failed1 == IF ok THEN call[c].failed ELSE call[c].failed \cup {p}
     IN /\ lastOp' = NoOp
        /\ IF call[c].idx < Len(enabled)
             THEN \* next iteration: createStreamProcess, then `await` again
                  \E ok2 \in BOOLEAN :
                    /\ Commit(createStreamProcess(S1, c, sid,
                                                  enabled[call[c].idx + 1], ok2))
                    /\ call' = [call EXCEPT ![c].idx = @ + 1, ![c].failed = failed1,
                                  ![c].pending = IF ok2 THEN "resolved" ELSE "rejected"]
           ELSE IF Len(S1.streamInfo[c].ffmpegProcesses) = 0
             THEN \* lines 75-77, then the catch at 86-89
                  \E t1 \in SUBSET KillTargets(S1, sid) :
                    LET S2 == stopMultistream(S1, sid, t1) IN
                    \E t2 \in SUBSET KillTargets(S2, sid) :
                      /\ Commit(stopMultistream(S2, sid, t2))
                      /\ call' = [call EXCEPT ![c].pc = "threw", ![c].failed = failed1,
                                    ![c].pending = "none", ![c].error = "FailedAll"]
           ELSE \* lines 80-84
                /\ Commit([S1 EXCEPT !.streamInfo[c].status = "active"])
                /\ call' = [call EXCEPT ![c].pc = "returned", ![c].failed = failed1,
                              ![c].pending = "none"]
  /\ UNCHANGED <<config, nextCall, queueVars, reconnVars, otherVars>>

\* a caller invokes stopMultistream(sid)
StopMultistream(sid) ==
  /\ \E throws \in SUBSET KillTargets(Current, sid) :
       Commit(stopMultistream(Current, sid, throws))
  /\ lastOp' = NoOp
  /\ UNCHANGED <<config, call, nextCall, queueVars, reconnVars, otherVars>>

\* performHealthCheck(), lines 280-298: the streams it stops
HealthStops(S) ==
  {sid \in StreamIds :
     /\ S.activeStreams[sid] # 0
     /\ LET info == S.streamInfo[S.activeStreams[sid]]
            alivePlatforms == SelectSeq(info.ffmpegProcesses,
                                        LAMBDA e : e.status = "running")
        IN Len(alivePlatforms) = 0}

RECURSIVE StopAll(_, _, _)
StopAll(S, sids, throwsOf) ==
  IF sids = {} THEN S
  ELSE LET sid == CHOOSE s \in sids : TRUE
       IN StopAll(stopMultistream(S, sid, throwsOf[sid]), sids \ {sid}, throwsOf)

PerformHealthCheck ==
  /\ \E throwsOf \in [StreamIds -> SUBSET Platforms] :
       /\ \A sid \in StreamIds :
            throwsOf[sid] \subseteq
              (IF sid \in HealthStops(Current) THEN KillTargets(Current, sid) ELSE {})
       /\ Commit(StopAll(Current, HealthStops(Current), throwsOf))
  /\ lastOp' = Op("performHealthCheck", "", 0, "")
  /\ UNCHANGED <<config, call, nextCall, queueVars, reconnVars, otherVars>>

\* the 'start' handler of the command, lines 129-132
ProcStart(c, p) ==
  /\ NoJobPending
  /\ proc[c][p].state = "run"
  /\ Commit(updatePlatformStatus(
              [Current EXCEPT !.proc[c][p].state = "started"],
              proc[c][p].streamId, p, "connected"))
  /\ lastOp' = NoOp
  /\ UNCHANGED <<config, call, nextCall, queueVars, reconnVars, otherVars>>

\* the 'error' handler of the command, lines 136-141
ProcError(c, p) ==
  /\ NoJobPending
  /\ proc[c][p].state \in {"run", "started"}
  /\ LET sid == proc[c][p].streamId
         S1 == updatePlatformStatus(
                 [Current EXCEPT !.proc[c][p].state = "exited"], sid, p, "error")
     IN Commit(recordError(S1, sid, p, "ffmpeg error"))
  /\ lastOp' = Op("error", proc[c][p].streamId, c, p)
  /\ UNCHANGED <<config, call, nextCall, queueVars, reconnVars, otherVars>>

\* the 'end' handler of the command, lines 142-146
ProcEnd(c, p) ==
  /\ NoJobPending
  /\ proc[c][p].state = "started"
  /\ Commit(updatePlatformStatus(
              [Current EXCEPT !.proc[c][p].state = "exited"],
              proc[c][p].streamId, p, "ended"))
  /\ lastOp' = NoOp
  /\ UNCHANGED <<config, call, nextCall, queueVars, reconnVars, otherVars>>

\* how many errors were recorded in the stats records that exist
RecordedTotal(S) ==
  LET n(sid) == IF S.streamStats[sid] = NoStats THEN 0
                ELSE Len(S.streamStats[sid].recorded)
  IN n("demo") + n("live")

\* recordError(streamId, platform, error) is called for a relay of the
\* stream: by the catch of line 69-72 or by the 'error' handler of a command
\* (lines 136-141) of this or of an earlier session of the streamId.  At
\* most MaxErrors errors are explored.
RecordError(sid, p, err) ==
  /\ NoJobPending
  /\ \E i \in DOMAIN getEnabledPlatforms : getEnabledPlatforms[i] = p
  /\ RecordedTotal(Current) < MaxErrors
  /\ streamStats[sid] # NoStats
  /\ Commit(recordError(Current, sid, p, err))
  /\ lastOp' = NoOp
  /\ UNCHANGED <<config, call, nextCall, queueVars, reconnVars, otherVars>>

\* the timer set by stopMultistream at lines 180-182 fires
StatsTimerFire(sid) ==
  /\ NoJobPending
  /\ statsTimers[sid] > 0
  /\ statsTimers' = [statsTimers EXCEPT ![sid] = @ - 1]
  /\ streamStats' = [streamStats EXCEPT ![sid] = NoStats]
  /\ lastOp' = NoOp
  /\ UNCHANGED <<config, activeStreams, streamInfo, proc, call, nextCall, queueVars, reconnVars, otherVars>>

\* The postPublish hook of the RTMP server, part_007 lines 734-751: a
\* publisher has connected to the path of the stream; the hook arms a 2 s
\* timer that will call startMultistream.  One publisher per path is
\* accepted at a time.
PostPublish(sid) ==
  /\ NoJobPending
  /\ sid \notin publishing
  /\ nextCall + startDelay["demo"] + startDelay["live"] < MaxCalls
  /\ publishing' = publishing \cup {sid}
  /\ startDelay' = [startDelay EXCEPT ![sid] = @ + 1]
  /\ lastOp' = NoOp
  /\ UNCHANGED <<config, activeStreams, streamInfo, streamStats, statsTimers, proc,
                 call, nextCall, bootVars, queueVars, reconnVars, managerVars, chatbotVars>>

\* the timer of the postPublish hook fires, lines 742-750
PublishTimerFire(sid) ==
  /\ NoJobPending
  /\ startDelay[sid] > 0
  /\ startDelay' = [startDelay EXCEPT ![sid] = @ - 1]
  /\ UNCHANGED <<publishing, bootVars>>
  /\ StartBody(sid)

\* The donePublish hook, lines 753-759: the publisher of the stream has left.
DonePublish(sid) ==
  /\ NoJobPending
  /\ sid \in publishing
  /\ publishing' = publishing \ {sid}
  /\ \E throws \in SUBSET KillTargets(Current, sid) :
       Commit(stopMultistream(Current, sid, throws))
  /\ lastOp' = NoOp
  /\ UNCHANGED <<config, call, nextCall, startDelay, bootVars, queueVars, reconnVars,
                 managerVars, chatbotVars>>

(***************************************************************************)
(* Part 2 - BasePlatform: the rate-limited outbound queue of one adapter   *)
(***************************************************************************)
Msgs == 1..MaxMsgs

\* Date.now() at construction is far beyond lastMessageTime = 0.
StartTime == messageRateLimit

QueueInit ==
  /\ chatConnected = FALSE
  /\ rateLimitQueue = <<>>
  /\ lastMessageTime = 0
  /\ now = StartTime
  /\ timers = <<>>
  /\ inflight = {}
  /\ future = <<>>
  /\ sentLog = <<>>
  /\ enqueued = <<>>

CurrentQ ==
  [rateLimitQueue |-> rateLimitQueue, lastMessageTime |-> lastMessageTime,
   timers |-> timers, inflight |-> inflight, sentLog |-> sentLog]

CommitQ(Q) ==
  /\ rateLimitQueue' = Q.rateLimitQueue
  /\ lastMessageTime' = Q.lastMessageTime
  /\ timers' = Q.timers
  /\ inflight' = Q.inflight
  /\ sentLog' = Q.sentLog

\* the rate-limit test always passing (mutant)
rateLimitPassed_Always(Q, t) == TRUE

\* May the head of the queue be sent at time t?  (line 90, negated)
rateLimitPassed(Q, t) == ~(t - Q.lastMessageTime < messageRateLimit)

\* a processMessageQueue() that returns without a timer when the rate limit
\* has not passed (mutant)
processMessageQueue_NoTimer(Q, t) ==
  IF Len(Q.rateLimitQueue) = 0 \/ ~rateLimitPassed(Q, t) THEN Q
  ELSE LET m == Head(Q.rateLimitQueue)
       IN [Q EXCEPT !.rateLimitQueue = Tail(@),
                    !.lastMessageTime = t,
                    !.inflight = @ \cup {m},
                    !.sentLog = Append(@, [msg |-> m, t |-> t])]

\* processMessageQueue(), lines 86-100: up to the `await` of the transmission.
\* A new timer is due no earlier than the pending ones, so `timers` stays
\* sorted by due time.
processMessageQueue(Q, t) ==
  IF Len(Q.rateLimitQueue) = 0 THEN Q
  ELSE IF ~rateLimitPassed(Q, t)
    THEN [Q EXCEPT !.timers = Append(@, t + messageRateLimit)]
  ELSE LET m == Head(Q.rateLimitQueue)
       IN [Q EXCEPT !.rateLimitQueue = Tail(@),
                    !.lastMessageTime = t,
                    !.inflight = @ \cup {m},
                    !.sentLog = Append(@, [msg |-> m, t |-> t])]

\* connectChat() / disconnectChat() of an adapter variant
ConnectChat ==
  /\ ~cleaned
  /\ ~chatConnected
  /\ chatConnected' = TRUE
  /\ UNCHANGED <<rateLimitQueue, lastMessageTime, now, timers, inflight, future,
                 sentLog, enqueued, streamVars, reconnVars, otherVars>>

DisconnectChat ==
  /\ chatConnected
  /\ chatConnected' = FALSE
  /\ UNCHANGED <<rateLimitQueue, lastMessageTime, now, timers, inflight, future,
                 sentLog, enqueued, streamVars, reconnVars, otherVars>>

\* sendMessage handing the message to the transport itself (mutant)
SendMessage_Direct ==
  /\ ~cleaned
  /\ Len(future) < MaxMsgs
  /\ LET m == Len(future) + 1 IN
     IF ~chatConnected
       THEN /\ future' = Append(future, "false")
            /\ UNCHANGED <<inflight, sentLog>>
       ELSE /\ future' = Append(future, "pending")
            /\ inflight' = inflight \cup {m}
            /\ sentLog' = Append(sentLog, [msg |-> m, t |-> now])
  /\ UNCHANGED <<chatConnected, now, rateLimitQueue, lastMessageTime, timers,
                 enqueued, streamVars, reconnVars, otherVars>>

\* sendMessage(message, options), lines 70-81
SendMessage ==
  /\ ~cleaned
  /\ Len(future) < MaxMsgs
  /\ LET m == Len(future) + 1 IN
     IF ~chatConnected
       THEN /\ future' = Append(future, "false")
            /\ UNCHANGED <<rateLimitQueue, lastMessageTime, timers, inflight,
                           sentLog, enqueued, streamVars, reconnVars, otherVars>>
       ELSE /\ future' = Append(future, "pending")
            /\ enqueued' = Append(enqueued, [msg |-> m, t |-> now])
            /\ CommitQ(processMessageQueue(
                 [CurrentQ EXCEPT !.rateLimitQueue = Append(@, m)], now))
  /\ UNCHANGED <<chatConnected, now, streamVars, reconnVars, otherVars>>

\* a timer set at line 92 or 109 fires and calls processMessageQueue()
TimerFire ==
  /\ timers # <<>>
  /\ Head(timers) <= now
  /\ CommitQ(processMessageQueue([CurrentQ EXCEPT !.timers = Tail(@)], now))
  /\ UNCHANGED <<chatConnected, now, future, enqueued, streamVars, reconnVars, otherVars>>

\* the transmission of m settles, and a failed message is queued again (mutant)
SendComplete_Requeue(m, result) ==
  /\ m \in inflight
  /\ future' = [future EXCEPT ![m] = IF result = "true" THEN "true" ELSE "false"]
  /\ inflight' = inflight \ {m}
  /\ rateLimitQueue' = IF result = "true" THEN rateLimitQueue
                                          ELSE Append(rateLimitQueue, m)
  /\ timers' = IF Len(rateLimitQueue') > 0
                 THEN Append(timers, now + messageRateLimit)
                 ELSE timers
  /\ UNCHANGED <<chatConnected, lastMessageTime, now, sentLog,
                 enqueued, streamVars, reconnVars, otherVars>>

\* processMessageQueue(), lines 100-110: the transmission of m settles
\* (result is what sendMessageImplementation returned, or "throw").
SendComplete(m, result) ==
  /\ m \in inflight
  /\ future' = [future EXCEPT ![m] = IF result = "true" THEN "true" ELSE "false"]
  /\ inflight' = inflight \ {m}
  /\ timers' = IF Len(rateLimitQueue) > 0
                 THEN Append(timers, now + messageRateLimit)
                 ELSE timers
  /\ UNCHANGED <<chatConnected, rateLimitQueue, lastMessageTime, now, sentLog,
                 enqueued, streamVars, reconnVars, otherVars>>

\* the clock advances; a timer fires when it is due.  The clock is explored
\* up to MaxTime and then for as long as a drain timer is pending.
Tick ==
  /\ ~exited
  /\ ~authTimer
  /\ now < MaxTime \/ timers # <<>>
  /\ IF timers = <<>> THEN TRUE ELSE Head(timers) > now
  /\ \A tm \in reconnectTimers : tm.due > now
  /\ now' = now + 1
  /\ UNCHANGED <<chatConnected, rateLimitQueue, lastMessageTime, timers, inflight,
                 future, sentLog, enqueued, streamVars, reconnVars, otherVars>>

(***************************************************************************)
(* Part 3 - BasePlatform and its variants: connection supervision, chat    *)
(* link, stream, errors and cleanup                                        *)
(***************************************************************************)
\* The adapter variants that are explored: TwitchPlatform, DiscordPlatform
\* and TelegramPlatform.
Variants == {"twitch", "discord", "telegram"}

ReconnectInit ==
  /\ isConnected = FALSE
  /\ reconnectAttempts = 0
  /\ reconnectTimers = {}
  /\ chatEnabled \in BOOLEAN
  /\ cleaned = FALSE
  /\ streak = 0
  /\ variant \in Variants
  /\ credentials = TRUE
  /\ client = "null"
  /\ closePending = FALSE
  /\ authTimer = FALSE
  /\ isStreaming = FALSE
  /\ ffmpegProcess = "none"
  /\ axes = {<<FALSE, FALSE>>}
  /\ exited = FALSE
  /\ chatOff = FALSE

\* The fields of the adapter the supervision code reads and writes.
CurrentR ==
  [isConnected |-> isConnected, chatConnected |-> chatConnected,
   reconnectAttempts |-> reconnectAttempts, reconnectTimers |-> reconnectTimers,
   streak |-> streak, client |-> client, closePending |-> closePending,
   authTimer |-> authTimer]

CommitR(R) ==
  /\ isConnected' = R.isConnected
  /\ chatConnected' = R.chatConnected
  /\ reconnectAttempts' = R.reconnectAttempts
  /\ reconnectTimers' = R.reconnectTimers
  /\ streak' = R.streak
  /\ client' = R.client
  /\ closePending' = R.closePending
  /\ authTimer' = R.authTimer

\* Is the adapter connected as far as its configuration asks for?
FullyConnected(R) == R.isConnected /\ (R.chatConnected \/ ~chatEnabled)

\* the streak ends when the adapter is fully connected again
endStreak(R) == [R EXCEPT !.streak = IF FullyConnected(R) THEN 0 ELSE @]

\* a handleConnection() that keeps the counter (mutant)
handleConnection_NoReset(R) == [R EXCEPT !.isConnected = TRUE]

\* handleConnection(), lines 171-176
handleConnection(R) == [R EXCEPT !.isConnected = TRUE, !.reconnectAttempts = 0]

\* attemptReconnect(), lines 202-212 and the setTimeout of line 213; cause
\* names what led to the call; id tells the timers apart that setTimeout
\* returns
attemptReconnect(R, t, cause) ==
  IF R.reconnectAttempts >= maxReconnectAttempts THEN R
  ELSE LET n == R.reconnectAttempts + 1
           delay == reconnectDelay * 2^(n - 1)
           id == CHOOSE i \in 1..(Cardinality(R.reconnectTimers) + 1) :
                   \A tm \in R.reconnectTimers : tm.id # i
       IN [R EXCEPT !.reconnectAttempts = n,
                    !.streak = @ + 1,
                    !.reconnectTimers =
                       @ \cup {[id |-> id, due |-> t + delay, delay |-> delay,
                                n |-> R.streak + 1, cause |-> cause]}]

\* handleDisconnection(), lines 181-189
handleDisconnection(R, t) ==
  attemptReconnect([R EXCEPT !.isConnected = FALSE, !.chatConnected = FALSE,
                             !.streak = IF FullyConnected(R) THEN 0 ELSE @],
                   t, "disconnected")

\* How initialize() of a variant ends: it throws "Missing required
\* credentials" when hasRequiredCredentials() is false, and otherwise the
\* calls to the platform succeed (ok) or throw.
initializeOutcome(ok) ==
  IF ~credentials THEN "credentials" ELSE IF ok THEN "ok" ELSE "error"

\* initialize() of the variants: the client object is created before the
\* calls that can fail; handleConnection() is the last step.
initialize(R, outcome) ==
  IF outcome = "credentials" THEN R
  ELSE LET R1 == CASE variant = "telegram" -> [R EXCEPT !.client = "closed"]
                   [] variant = "discord" ->
                        [R EXCEPT !.client = IF outcome = "ok" THEN "open" ELSE "closed"]
                   [] OTHER -> R
       IN IF outcome = "ok" THEN handleConnection(R1) ELSE R1

\* connectChat() of the variants throws: Twitch when getUserInfo() fails,
\* Telegram when bot.launch() fails; Discord's has no call that can fail.
connectChatThrows(R, ok) ==
  /\ ~R.chatConnected
  /\ chatEnabled
  /\ ~ok
  /\ \/ variant = "twitch"
     \/ variant = "telegram" /\ R.client # "null"

\* connectChat() of the variants when it does not throw.  Twitch opens a
\* socket and arms a 2 s timer that sets chatConnected; Discord sets the flag
\* when its client is ready; Telegram starts polling and sets the flag.
connectChat(R, ok) ==
  IF R.chatConnected \/ ~chatEnabled \/ ~ok THEN R
  ELSE CASE variant = "twitch" -> [R EXCEPT !.client = "open", !.authTimer = TRUE]
         [] variant = "discord" ->
              IF R.client = "open" THEN [R EXCEPT !.chatConnected = TRUE] ELSE R
         [] OTHER ->
              IF R.client = "null" THEN R
              ELSE [R EXCEPT !.client = "open", !.chatConnected = TRUE]

\* disconnectChat() of the variants.  Twitch closes its socket (the 'close'
\* event of an open socket follows) and clears the flag; Discord clears the
\* flag; Telegram clears the flag only when bot.stop() did not throw.
disconnectChat(R, stopOk) ==
  CASE variant = "twitch" ->
         [R EXCEPT !.chatConnected = FALSE, !.client = "null",
                   !.closePending = @ \/ R.client = "open"]
    [] variant = "discord" -> [R EXCEPT !.chatConnected = FALSE]
    [] OTHER ->
         IF R.client # "null" /\ stopOk
         THEN [R EXCEPT !.chatConnected = FALSE, !.client = "closed"]
         ELSE R

\* the combination of (chatConnected, isStreaming) a chat step leads to is
\* recorded
Seen == axes' = axes \cup {<<chatConnected', isStreaming>>}

\* SocialMediaManager.initialize() for this adapter: initialize() and, when
\* chat is enabled, connectChat(); what they throw is caught and logged.
InitializePlatform(initOk, chatOk) ==
  /\ ~exited
  /\ ~cleaned
  /\ ~isConnected
  /\ reconnectTimers = {}
  /\ LET out == initializeOutcome(initOk)
         R1 == initialize(CurrentR, out)
     IN CommitR(IF out = "ok" THEN endStreak(connectChat(R1, chatOk)) ELSE R1)
  /\ Seen
  /\ chatOff' = FALSE
  /\ UNCHANGED <<chatEnabled, cleaned, variant, credentials, isStreaming, ffmpegProcess,
                 exited, rateLimitQueue, lastMessageTime, now, timers,
                 inflight, future, sentLog, enqueued, streamVars, otherVars>>

\* The platform client reports that the connection was lost: the 'close'
\* event of the Twitch socket (lines 172-176 of twitchPlatform.js), of the
\* open one or of one that disconnectChat() closed, and the 'disconnect'
\* event of the Discord client, which the client can raise again while an
\* attempt is scheduled; both call handleDisconnection().  At most MaxChains
\* reconnect timers are explored at once.
HandleDisconnection ==
  /\ ~exited
  /\ Cardinality(reconnectTimers) < MaxChains
  /\ CASE variant = "twitch" -> closePending \/ client = "open"
       [] variant = "discord" -> client = "open"
       [] OTHER -> FALSE
  /\ LET R == IF variant # "twitch" THEN CurrentR
              ELSE IF closePending THEN [CurrentR EXCEPT !.closePending = FALSE]
              ELSE [CurrentR EXCEPT !.client = "closed"]
     IN CommitR(handleDisconnection(R, now))
  /\ Seen
  /\ UNCHANGED <<chatOff, chatEnabled, cleaned, variant, credentials, isStreaming, ffmpegProcess,
                 exited, rateLimitQueue, lastMessageTime, now, timers,
                 inflight, future, sentLog, enqueued, streamVars, otherVars>>

\* The callback of line 213-223 runs: initialize() succeeds or throws, then
\* connectChat() succeeds or throws; a throw calls attemptReconnect().
ReconnectTimerFire(tm, initOk, chatOk) ==
  /\ ~exited
  /\ tm \in reconnectTimers
  /\ tm.due <= now
  /\ LET R0 == [CurrentR EXCEPT !.reconnectTimers = @ \ {tm}]
         out == initializeOutcome(initOk)
         R1 == initialize(R0, out)
     IN CommitR(IF out # "ok" THEN attemptReconnect(R1, now, out)
                ELSE IF connectChatThrows(R1, chatOk)
                     THEN attemptReconnect(R1, now, "error")
                ELSE endStreak(connectChat(R1, TRUE)))
  /\ Seen
  /\ UNCHANGED <<chatOff, chatEnabled, cleaned, variant, credentials, isStreaming, ffmpegProcess,
                 exited, rateLimitQueue, lastMessageTime, now, timers,
                 inflight, future, sentLog, enqueued, streamVars, otherVars>>

\* The 2 s timer of TwitchPlatform.connectChat(), lines 178-181, runs.
ChatAuthTimer ==
  /\ ~exited
  /\ authTimer
  /\ CommitR(endStreak([CurrentR EXCEPT !.chatConnected = TRUE, !.authTimer = FALSE]))
  /\ Seen
  /\ UNCHANGED <<chatOff, chatEnabled, cleaned, variant, credentials, isStreaming, ffmpegProcess,
                 exited, rateLimitQueue, lastMessageTime, now, timers,
                 inflight, future, sentLog, enqueued, streamVars, otherVars>>

\* A caller invokes disconnectChat(); stopOk is whether bot.stop() returned.
DisconnectChatCall(stopOk) ==
  /\ ~exited
  /\ ~cleaned
  /\ isConnected
  /\ CommitR(disconnectChat(CurrentR, stopOk))
  /\ Seen
  /\ chatOff' = ~disconnectChat(CurrentR, stopOk).chatConnected
  /\ UNCHANGED <<chatEnabled, cleaned, variant, credentials, isStreaming, ffmpegProcess,
                 exited, rateLimitQueue, lastMessageTime, now, timers,
                 inflight, future, sentLog, enqueued, streamVars, otherVars>>

\* updateConfig(), lines 271-274: the credentials are set or removed
UpdateConfig(c) ==
  /\ ~exited
  /\ ~cleaned
  /\ c # credentials
  /\ credentials' = c
  /\ UNCHANGED <<isConnected, reconnectAttempts, reconnectTimers, chatOff, chatEnabled, cleaned,
                 streak, variant, client, closePending, authTimer, isStreaming,
                 ffmpegProcess, axes, exited, queueVars, streamVars, otherVars>>

\* TwitchPlatform.startStream(), lines 43-104, up to run(): one relay process
\* of the adapter is explored at a time.
StartStream ==
  /\ ~exited
  /\ ~cleaned
  /\ variant = "twitch"
  /\ ~isStreaming
  /\ ffmpegProcess \in {"none", "dead"}
  /\ ffmpegProcess' = "spawned"
  /\ UNCHANGED <<isConnected, reconnectAttempts, reconnectTimers, chatOff, chatEnabled, cleaned,
                 streak, variant, credentials, client, closePending, authTimer,
                 isStreaming, axes, exited, queueVars, streamVars, otherVars>>

\* the 'start' event of the relay process, lines 74-85
StreamStarted ==
  /\ ~exited
  /\ ffmpegProcess = "spawned"
  /\ ffmpegProcess' = "running"
  /\ isStreaming' = TRUE
  /\ axes' = axes \cup {<<chatConnected, TRUE>>}
  /\ UNCHANGED <<isConnected, reconnectAttempts, reconnectTimers, chatOff, chatEnabled, cleaned,
                 streak, variant, credentials, client, closePending, authTimer,
                 exited, queueVars, streamVars, otherVars>>

\* the 'error' or 'end' event of the relay process, lines 86-97; the handle
\* this.ffmpegProcess is kept unless stopStream() or cleanup() cleared it
StreamEnded ==
  /\ ~exited
  /\ ffmpegProcess \in {"spawned", "running", "signalled"}
  /\ ffmpegProcess' = IF ffmpegProcess = "signalled" THEN "none" ELSE "dead"
  /\ isStreaming' = FALSE
  /\ axes' = axes \cup {<<chatConnected, FALSE>>}
  /\ UNCHANGED <<isConnected, reconnectAttempts, reconnectTimers, chatOff, chatEnabled, cleaned,
                 streak, variant, credentials, client, closePending, authTimer,
                 exited, queueVars, streamVars, otherVars>>

\* a stopStream() that also drops the chat connection
StopStream_DropsChat ==
  /\ ~exited
  /\ ~cleaned
  /\ isStreaming
  /\ ffmpegProcess = "running"
  /\ ffmpegProcess' = "signalled"
  /\ isStreaming' = FALSE
  /\ chatConnected' = FALSE
  /\ axes' = axes \cup {<<FALSE, FALSE>>}
  /\ UNCHANGED <<isConnected, reconnectAttempts, reconnectTimers, chatOff, chatEnabled, cleaned,
                 streak, variant, credentials, client, closePending, authTimer,
                 exited, rateLimitQueue, lastMessageTime, now, timers,
                 inflight, future, sentLog, enqueued, streamVars, otherVars>>

\* TwitchPlatform.stopStream(), lines 109-128
StopStream ==
  /\ ~exited
  /\ ~cleaned
  /\ isStreaming
  /\ ffmpegProcess = "running"
  /\ ffmpegProcess' = "signalled"
  /\ isStreaming' = FALSE
  /\ axes' = axes \cup {<<chatConnected, FALSE>>}
  /\ UNCHANGED <<isConnected, reconnectAttempts, reconnectTimers, chatOff, chatEnabled, cleaned,
                 streak, variant, credentials, client, closePending, authTimer,
                 exited, queueVars, streamVars, otherVars>>

\* The platform client reports an error: the 'error' event of the Twitch
\* socket (lines 166-170, which also clear chatConnected), of the Discord
\* client and of the Telegram bot; each calls handleError(), lines 194-197,
\* which emits 'error'.  The manager listens until cleanup() removed the
\* listeners; an 'error' event without a listener is thrown by the emitter
\* and ends in the uncaughtException handler, which exits the process.
HandleError ==
  /\ ~exited
  /\ client = "open"
  /\ chatConnected' = (chatConnected /\ variant # "twitch")
  /\ exited' = cleaned
  /\ axes' = axes \cup {<<chatConnected', isStreaming>>}
  /\ UNCHANGED <<isConnected, reconnectAttempts, reconnectTimers, chatOff, chatEnabled, cleaned,
                 streak, variant, credentials, client, closePending, authTimer,
                 isStreaming, ffmpegProcess, rateLimitQueue, lastMessageTime, now, timers,
                 inflight, future, sentLog, enqueued, streamVars, otherVars>>

\* cleanup() of the variants (called for every adapter by
\* SocialMediaManager.cleanup()), each ending in BasePlatform.cleanup(), lines
\* 229-242: stopStream() when streaming, disconnectChat() when chat is
\* connected, and removeAllListeners().  Twitch kills its relay process and
\* clears the handle first, so that stopStream() finds nothing to stop;
\* Discord destroys its client; Telegram calls disconnectChat() itself
\* before the base class does.  The adapter is then dropped by its owner.
Cleanup(stopOk1, stopOk2) ==
  /\ ~exited
  /\ ~cleaned
  /\ cleaned' = TRUE
  /\ LET R1 == disconnectChat(CurrentR, stopOk1)
     IN CommitR(CASE variant = "twitch" -> R1
                  [] variant = "discord" -> [R1 EXCEPT !.client = "null"]
                  [] OTHER -> IF R1.chatConnected THEN disconnectChat(R1, stopOk2) ELSE R1)
  /\ ffmpegProcess' = CASE ffmpegProcess \in {"spawned", "running"} -> "signalled"
                        [] ffmpegProcess = "dead" -> "none"
                        [] OTHER -> ffmpegProcess
  /\ Seen
  /\ UNCHANGED <<chatOff, chatEnabled, variant, credentials, isStreaming, exited,
                 rateLimitQueue, lastMessageTime, now, timers, inflight, future,
                 sentLog, enqueued, streamVars, otherVars>>

(***************************************************************************)
(* Part 4 - SocialMediaManager: chat history and fan-out of responses      *)
(***************************************************************************)
\* the adapters of initializePlatforms that are explored
AdapterNames == <<"twitch", "discord", "telegram", "kick">>
Adapters == {AdapterNames[i] : i \in 1..NumAdapters}
Inbound == 1..MaxInbound

\* getTwitchConfig() ... getOdyseeConfig(): the flags the fan-out reads
AdapterConfig(a) ==
  [chatbotEnabled |-> IF a = "kick" THEN FALSE ELSE chatbotEnv,
   allowSelfResponse |-> (a \in {"discord", "telegram"})]

IdleHandler == [pc |-> "idle", platform |-> ""]
DoneHandler == [pc |-> "returned", platform |-> ""]
NoDelivery == [a \in Adapters |-> "none"]

ManagerInit ==
  /\ chatbotEnv \in BOOLEAN
  /\ chatbotService = FALSE
  /\ platformChat = [a \in Adapters |-> FALSE]
  /\ messageHistory = <<>>
  /\ inbound = 0
  /\ handler = [m \in Inbound |-> IdleHandler]
  /\ delivery = [m \in Inbound |-> NoDelivery]
  /\ events = [m \in Inbound |-> <<>>]
  /\ boot = "start"
  /\ attempted = {}
  /\ settled = {}

\* the history push without the eviction (mutant)
pushHistory_NoEvict(h, m) == Append(h, m)

\* handleIncomingMessage, lines 196-199
pushHistory(h, m) ==
  LET pushed == Append(h, m)
  IN IF Len(pushed) > maxMessageHistory THEN Tail(pushed) ELSE pushed

\* the fan-out without the test of the source platform (mutant)
sendResponseToAllPlatforms_ToSource(source) ==
  [a \in Adapters |->
     IF platformChat[a] /\ AdapterConfig(a).chatbotEnabled THEN "pending" ELSE "none"]

\* sendResponseToAllPlatforms(message, originalMessage), lines 223-239: the
\* adapters on which platform.sendMessage(message) is called; the callbacks of
\* the map run to their first await in the same step.
sendResponseToAllPlatforms(source) ==
  [a \in Adapters |->
     IF platformChat[a] /\ AdapterConfig(a).chatbotEnabled
       THEN IF a = source /\ ~AdapterConfig(a).allowSelfResponse
              THEN "none"
              ELSE "pending"
       ELSE "none"]

\* setChatbotService(chatbotService), lines 289-292
SetChatbotService ==
  /\ ~chatbotService
  /\ chatbotService' = TRUE
  /\ UNCHANGED <<chatbotEnv, platformChat, messageHistory, inbound, handler, delivery,
                 events, streamVars, queueVars, reconnVars, chatbotVars, hookVars>>

\* the chat connection of adapter a comes up or goes down
PlatformChatChange(a) ==
  /\ platformChat' = [platformChat EXCEPT ![a] = ~@]
  /\ UNCHANGED <<chatbotEnv, chatbotService, messageHistory, inbound, handler, delivery,
                 events, streamVars, queueVars, reconnVars, chatbotVars, hookVars>>

\* a handleIncomingMessage that emits the message only when no chatbot is
\* set (mutant)
inboundEvents_EmitWithoutChatbot(m) ==
  IF chatbotService THEN <<"stored", "requested">> ELSE <<"stored", "emitted">>

\* what handleIncomingMessage logs for message m up to its await: the push
\* to the history (line 196), the emit (line 204) and, with a chatbot, the
\* call of processMessage (line 210)
inboundEvents(m) ==
  <<"stored", "emitted">> \o (IF chatbotService THEN <<"requested">> ELSE <<>>)

\* handleIncomingMessage(messageData), lines 194-209: up to the await of
\* chatbotService.processMessage; without a chatbot the call returns.
HandleIncomingMessage(a) ==
  /\ inbound < MaxInbound
  /\ Cardinality({m \in Inbound : handler[m].pc \in {"processMessage", "allSettled"}})
       < MaxPending
  /\ inbound' = inbound + 1
  /\ messageHistory' = pushHistory(messageHistory, inbound + 1)
  /\ events' = [events EXCEPT ![inbound + 1] = inboundEvents(inbound + 1)]
  /\ handler' = [handler EXCEPT ![inbound + 1] =
                   IF chatbotService THEN [pc |-> "processMessage", platform |-> a]
                                     ELSE DoneHandler]
  /\ UNCHANGED <<chatbotEnv, chatbotService, platformChat, delivery,
                 streamVars, queueVars, reconnVars, chatbotVars, hookVars>>

\* handleIncomingMessage, lines 209-216: processMessage settles with a response
\* with text ("text"), with null or a response without text ("null"), or
\* throws ("throw"); a response with text is fanned out.
ChatbotReply(m, reply) ==
  /\ handler[m].pc = "processMessage"
  /\ IF reply = "text"
       THEN /\ handler' = [handler EXCEPT ![m].pc = "allSettled"]
            /\ delivery' = [delivery EXCEPT ![m] =
                              sendResponseToAllPlatforms(handler[m].platform)]
            /\ events' = [events EXCEPT ![m] = Append(@, "fanned")]
       ELSE /\ handler' = [handler EXCEPT ![m] = DoneHandler]
            /\ UNCHANGED <<delivery, events>>
  /\ UNCHANGED <<chatbotEnv, chatbotService, platformChat, messageHistory, inbound,
                 streamVars, queueVars, reconnVars, chatbotVars, hookVars>>

\* a failed sendMessage that also abandons the other sends of the call (mutant)
SendSettle_FailFast(m, a, outcome) ==
  /\ delivery[m][a] = "pending"
  /\ delivery' = [delivery EXCEPT ![m] =
                    IF outcome = "true" THEN [@ EXCEPT ![a] = "sent"]
                    ELSE [b \in Adapters |-> IF @[b] = "pending" THEN "failed" ELSE @[b]]]
  /\ UNCHANGED <<chatbotEnv, chatbotService, platformChat, messageHistory, inbound,
                 events, handler, streamVars, queueVars, reconnVars, chatbotVars, hookVars>>

\* lines 231-236: platform.sendMessage(message) of adapter a settles: it
\* resolves ("true" or "false") or rejects ("throw").
SendSettle(m, a, outcome) ==
  /\ delivery[m][a] = "pending"
  /\ delivery' = [delivery EXCEPT ![m][a] = IF outcome = "true" THEN "sent" ELSE "failed"]
  /\ UNCHANGED <<chatbotEnv, chatbotService, platformChat, messageHistory, inbound,
                 events, handler, streamVars, queueVars, reconnVars, chatbotVars, hookVars>>

\* lines 241-249 and 211-217: Promise.allSettled resolves once every send has
\* settled, and handleIncomingMessage returns.
FanoutReturn(m) ==
  /\ handler[m].pc = "allSettled"
  /\ \A a \in Adapters : delivery[m][a] # "pending"
  /\ handler' = [handler EXCEPT ![m] = DoneHandler]
  /\ delivery' = [delivery EXCEPT ![m] = NoDelivery]
  /\ UNCHANGED <<chatbotEnv, chatbotService, platformChat, messageHistory, inbound, events,
                 streamVars, queueVars, reconnVars, chatbotVars, hookVars>>

\* MultistreamServer.initializeAsyncServices(), part_007 lines 999-1017, up
\* to its first await: chatbotService.initialize() when CHATBOT_ENABLED is
\* set, and socialMediaManager.initialize() otherwise.  The constructor has
\* called setChatbotService() before (line 988).
InitializeAsyncServices ==
  /\ chatbotService
  /\ boot = "start"
  /\ boot' = IF chatbotEnv THEN "chatbot" ELSE "platforms"
  /\ attempted' = IF chatbotEnv THEN attempted ELSE Adapters
  /\ UNCHANGED <<publishing, startDelay, settled, managerVars, chatbotVars,
                 streamVars, queueVars, reconnVars>>

\* RasaChatbotService.initialize() settles, lines 315-334: it returns, and
\* line 1005-1010 go on to socialMediaManager.initialize(); or it rethrows
\* what testConnection() or ensureModelLoaded() threw, and the catch of lines
\* 1012-1015 ends initializeAsyncServices().
ChatbotInitialized(ok) ==
  /\ boot = "chatbot"
  /\ boot' = IF ok THEN "platforms" ELSE "failed"
  /\ attempted' = IF ok THEN Adapters ELSE attempted
  /\ rasaIsConnected' = ok
  /\ UNCHANGED <<publishing, startDelay, settled, managerVars, confidenceThreshold,
                 responseCache, pendingRasa, lastResponse, sessionStore,
                 streamVars, queueVars, reconnVars>>

\* SocialMediaManager.initialize(), part_006 lines 107-122: initialize() and
\* connectChat() of adapter a settle; ok is whether both succeeded.
PlatformInitialized(a, ok) ==
  /\ boot = "platforms"
  /\ a \in attempted \ settled
  /\ settled' = settled \cup {a}
  /\ platformChat' = [platformChat EXCEPT ![a] = ok]
  /\ UNCHANGED <<publishing, startDelay, boot, attempted, chatbotEnv, chatbotService,
                 messageHistory, inbound, handler, delivery, events, chatbotVars,
                 streamVars, queueVars, reconnVars>>

\* SocialMediaManager.initialize(), lines 124-133, and part_007 lines
\* 1010-1011: every adapter has settled
ManagerInitialized ==
  /\ boot = "platforms"
  /\ settled = Adapters
  /\ boot' = "done"
  /\ UNCHANGED <<publishing, startDelay, attempted, settled, managerVars, chatbotVars,
                 streamVars, queueVars, reconnVars>>

\* a chat message arrives on an adapter whose chat is connected
InboundChat(a) == platformChat[a] /\ HandleIncomingMessage(a)

(***************************************************************************)
(* Part 5 - RasaChatbotService: processMessage and the response cache      *)
(***************************************************************************)
\* The chat texts explored, with message.length after trim().
TextLength == [hi |-> 2, nice |-> 11, song |-> 29]
ChatTexts == DOMAIN TextLength

\* the patterns setupResponseCache installs, all with confidence 1.0
CommonPatterns == <<"greet", "goodbye", "affirm", "mood_great">>
CommonConfidence == 10
CacheLengthLimit == 20
CacheConfidenceFloor == 8
DefaultConfidence == 8

\* what sendToRasa can settle with: it throws (timeout or transport failure),
\* returns no response, a first response without text, or a first response
\* with text and a confidence in tenths (0: no confidence field)
RasaOutcomes == {"throw", "empty", "notext", "text"}
RasaConfidences == {0, 5, 8, 9, 10}

\* stored: the timestamp of the cache entry a cached response came from
NoResponse == [kind |-> "none", confidence |-> 0, text |-> "", stored |-> 0]

\* regex.test(message) for the cached pattern
Matches(pattern, text) ==
  \/ pattern = "greet" /\ text = "hi"
  \/ pattern = text

\* setupResponseCache(), lines 585-599
setupResponseCache(t) ==
  [i \in DOMAIN CommonPatterns |->
     [pattern |-> CommonPatterns[i], confidence |-> CommonConfidence, timestamp |-> t]]

ChatbotInit ==
  /\ rasaIsConnected = FALSE
  /\ confidenceThreshold \in {7, 9}
  /\ responseCache = setupResponseCache(StartTime)
  /\ pendingRasa = {}
  /\ lastResponse = NoResponse
  /\ sessionStore = {}

RECURSIVE getCachedResponse(_, _, _)
\* getCachedResponse(message), lines 604-619: walks the cache in insertion
\* order, deletes the expired entries it passes and stops at the first match;
\* the result is the cache left and the index of the hit in it (0: none).
getCachedResponse(cache, text, t) ==
  IF cache = <<>> THEN [cache |-> <<>>, hit |-> 0]
  ELSE IF t - Head(cache).timestamp > cacheExpiryTime
    THEN getCachedResponse(Tail(cache), text, t)
  ELSE IF Matches(Head(cache).pattern, text)
    THEN [cache |-> cache, hit |-> 1]
  ELSE LET rest == getCachedResponse(Tail(cache), text, t)
       IN [cache |-> <<Head(cache)>> \o rest.cache,
           hit |-> IF rest.hit = 0 THEN 0 ELSE rest.hit + 1]

\* Map.set(key, value): an existing key keeps its place
MapSet(cache, entry) ==
  IF \E i \in DOMAIN cache : cache[i].pattern = entry.pattern
    THEN [i \in DOMAIN cache |->
            IF cache[i].pattern = entry.pattern THEN entry ELSE cache[i]]
    ELSE Append(cache, entry)

\* cacheResponse(message, response), lines 624-633
cacheResponse(cache, text, confidence, t) ==
  IF TextLength[text] <= CacheLengthLimit /\ confidence > CacheConfidenceFloor
    THEN MapSet(cache, [pattern |-> text, confidence |-> confidence, timestamp |-> t])
    ELSE cache

\* processRasaResponse, line 524: firstResponse.confidence || 0.8
processRasaResponse(c) == IF c = 0 THEN DefaultConfidence ELSE c

\* the session keys `${platform}_${userId}` of the users who write
SessionKeys == {"telegram_alice"}

\* getSessionId(messageData), lines 559-580: creates the session of the key
\* when there is none and sets its lastActivity
getSessionId(store, key, t) ==
  {e \in store : e.key # key} \cup {[key |-> key, lastActivity |-> t]}

\* cleanup(), lines 761-770: the sessions that are left
cleanupSessions(store, t) ==
  {e \in store : ~(t - e.lastActivity > sessionTimeout)}

\* cleanup(), lines 772-777: the cache entries that are left
cleanupCache(cache, t) ==
  SelectSeq(cache, LAMBDA e : ~(t - e.timestamp > cacheExpiryTime))

\* initialize(socialMediaManager) succeeds, lines 315-329
InitializeChatbot ==
  /\ ~rasaIsConnected
  /\ rasaIsConnected' = TRUE
  /\ UNCHANGED <<confidenceThreshold, responseCache, pendingRasa, lastResponse,
                 sessionStore, streamVars, queueVars, reconnVars, managerVars, hookVars>>

\* shutdown(), lines 788-798: the only caller of cleanup()
Shutdown ==
  /\ rasaIsConnected
  /\ rasaIsConnected' = FALSE
  /\ sessionStore' = cleanupSessions(sessionStore, now)
  /\ responseCache' = cleanupCache(responseCache, now)
  /\ UNCHANGED <<confidenceThreshold, pendingRasa, lastResponse,
                 streamVars, queueVars, reconnVars, managerVars, hookVars>>

\* processMessage(messageData), lines 408-429: up to the await of sendToRasa
ProcessMessage(key, text) ==
  /\ text \notin pendingRasa
  /\ IF ~rasaIsConnected
       THEN /\ lastResponse' = [kind |-> "null", confidence |-> 0, text |-> text, stored |-> 0]
            /\ UNCHANGED <<responseCache, pendingRasa, sessionStore>>
       ELSE LET found == getCachedResponse(responseCache, text, now)
            IN /\ sessionStore' = getSessionId(sessionStore, key, now)
               /\ responseCache' = found.cache
               /\ IF found.hit # 0
                    THEN /\ lastResponse' =
                              [kind |-> "cached", text |-> text,
                               confidence |-> found.cache[found.hit].confidence,
                               stored |-> found.cache[found.hit].timestamp]
                         /\ UNCHANGED pendingRasa
                    ELSE /\ pendingRasa' = pendingRasa \cup {text}
                         /\ UNCHANGED lastResponse
  /\ UNCHANGED <<rasaIsConnected, confidenceThreshold,
                 streamVars, queueVars, reconnVars, managerVars, hookVars>>

\* processMessage, lines 429-461: sendToRasa settles and the call returns
RasaReply(text, outcome, confidence) ==
  /\ text \in pendingRasa
  /\ pendingRasa' = pendingRasa \ {text}
  /\ IF outcome \in {"throw", "empty"}
       THEN /\ lastResponse' = [kind |-> "fallback", confidence |-> 0, text |-> text, stored |-> 0]
            /\ UNCHANGED responseCache
     ELSE IF outcome = "notext"
       \* response is null: cacheResponse reads response.confidence and throws
       \* unless the length test fails first
       THEN /\ lastResponse' =
                 IF TextLength[text] <= CacheLengthLimit
                   THEN [kind |-> "fallback", confidence |-> 0, text |-> text, stored |-> 0]
                   ELSE [kind |-> "null", confidence |-> 0, text |-> text, stored |-> 0]
            /\ UNCHANGED responseCache
     ELSE LET c == processRasaResponse(confidence)
          IN /\ responseCache' = cacheResponse(responseCache, text, c, now)
             /\ lastResponse' = [kind |-> "engine", confidence |-> c, text |-> text, stored |-> 0]
  /\ UNCHANGED <<rasaIsConnected, confidenceThreshold, sessionStore,
                 streamVars, queueVars, reconnVars, managerVars, hookVars>>

(***************************************************************************)
(* Specifications                                                          *)
(***************************************************************************)
\* The stream service and the queue are explored for an adapter with chat
\* enabled; the supervision of the connection for both settings.
Init == StreamInit /\ QueueInit /\ ReconnectInit /\ chatEnabled /\ variant = "discord"
          /\ ManagerInit /\ chatbotEnv /\ ChatbotInit /\ confidenceThreshold = 7

InitReconnect ==
  /\ StreamInit /\ QueueInit /\ ReconnectInit /\ ManagerInit /\ chatbotEnv
  /\ ChatbotInit /\ confidenceThreshold = 7
  /\ \A p \in Platforms \ KeylessTargets : config[p].enabled

\* the manager is explored with CHATBOT_ENABLED set and unset, for one
\* configuration of the stream targets
InitManager ==
  /\ StreamInit /\ QueueInit /\ ReconnectInit /\ chatEnabled /\ ManagerInit
  /\ ChatbotInit /\ confidenceThreshold = 7 /\ variant = "discord"
  /\ \A p \in Platforms \ KeylessTargets : config[p].enabled

\* the chatbot service is explored for two configured thresholds
InitChatbot ==
  /\ StreamInit /\ QueueInit /\ ReconnectInit /\ chatEnabled /\ ManagerInit /\ chatbotEnv
  /\ ChatbotInit /\ variant = "discord"
  /\ \A p \in Platforms \ KeylessTargets : config[p].enabled

\* the multistream service
Next ==
  \/ \E sid \in StreamIds : StartMultistream(sid)
  \/ \E c \in Calls : ResumeStart(c)
  \/ \E sid \in StreamIds : StopMultistream(sid)
  \/ PerformHealthCheck
  \/ \E c \in Calls, p \in Platforms : ProcStart(c, p)
  \/ \E c \in Calls, p \in Platforms : ProcError(c, p)
  \/ \E c \in Calls, p \in Platforms : ProcEnd(c, p)
  \/ \E sid \in StreamIds : StatsTimerFire(sid)

Spec == Init /\ [][Next]_vars

\* the multistream service driven by the hooks of the RTMP server
InitPublish == Init /\ \A p \in Platforms \ KeylessTargets : config[p].enabled

NextPublish ==
  \/ \E sid \in StreamIds : PostPublish(sid)
  \/ \E sid \in StreamIds : PublishTimerFire(sid)
  \/ \E sid \in StreamIds : DonePublish(sid)
  \/ \E c \in Calls : ResumeStart(c)
  \/ \E c \in Calls, p \in Platforms : ProcStart(c, p)
  \/ \E c \in Calls, p \in Platforms : ProcError(c, p)
  \/ \E c \in Calls, p \in Platforms : ProcEnd(c, p)

SpecPublish == InitPublish /\ [][NextPublish]_vars

\* the error log of the multistream service: sessions are started and
\* errors are recorded for their relays
InitErrorLog == Init /\ \A p \in Platforms \ KeylessTargets : config[p].enabled

NextErrorLog ==
  \/ \E sid \in StreamIds : StartMultistream(sid)
  \/ \E c \in Calls : ResumeStart(c)
  \/ \E sid \in StreamIds, p \in Platforms : RecordError(sid, p, "ffmpeg error")

SpecErrorLog == InitErrorLog /\ [][NextErrorLog]_vars

\* the outbound queue of one adapter
NextQueue ==
  \/ ConnectChat
  \/ DisconnectChat
  \/ SendMessage
  \/ TimerFire
  \/ \E m \in Msgs, result \in {"true", "false", "throw"} : SendComplete(m, result)
  \/ Tick
  \/ \E ok \in BOOLEAN \X BOOLEAN : Cleanup(ok[1], ok[2])

SpecQueue == Init /\ [][NextQueue]_vars

\* the outbound queue when timers fire and every transmission settles;
\* callers need not send and the adapter need not be cleaned up
InitQueueLive == Init /\ \A p \in Platforms \ KeylessTargets : config[p].enabled

SpecQueueLive ==
  /\ InitQueueLive
  /\ [][NextQueue]_vars
  /\ WF_vars(Tick)
  /\ WF_vars(TimerFire)
  /\ WF_vars(\E m \in Msgs, result \in {"true", "false", "throw"} : SendComplete(m, result))

\* the supervision of one adapter's connection
NextReconnect ==
  \/ \E ok \in BOOLEAN \X BOOLEAN : InitializePlatform(ok[1], ok[2])
  \/ HandleDisconnection
  \/ \E tm \in reconnectTimers, ok \in BOOLEAN \X BOOLEAN : ReconnectTimerFire(tm, ok[1], ok[2])
  \/ ChatAuthTimer
  \/ \E stopOk \in BOOLEAN : DisconnectChatCall(stopOk)
  \/ \E c \in BOOLEAN : UpdateConfig(c)
  \/ StartStream
  \/ StreamStarted
  \/ StreamEnded
  \/ StopStream
  \/ HandleError
  \/ \E ok \in BOOLEAN \X BOOLEAN : Cleanup(ok[1], ok[2])
  \/ Tick

SpecReconnect == InitReconnect /\ [][NextReconnect]_vars

\* the social media manager
NextManager ==
  \/ SetChatbotService
  \/ \E a \in Adapters : PlatformChatChange(a)
  \/ \E a \in Adapters : HandleIncomingMessage(a)
  \/ \E m \in Inbound, reply \in {"text", "null", "throw"} : ChatbotReply(m, reply)
  \/ \E m \in Inbound, a \in Adapters, r \in {"true", "false", "throw"} : SendSettle(m, a, r)
  \/ \E m \in Inbound : FanoutReturn(m)

SpecManager == InitManager /\ [][NextManager]_vars

\* the startup of the server: the router, its adapters and the chatbot
NextStartup ==
  \/ SetChatbotService
  \/ InitializeAsyncServices
  \/ \E ok \in BOOLEAN : ChatbotInitialized(ok)
  \/ \E a \in Adapters, ok \in BOOLEAN : PlatformInitialized(a, ok)
  \/ ManagerInitialized
  \/ \E a \in Adapters : InboundChat(a)
  \/ \E m \in Inbound, reply \in {"text", "null", "throw"} : ChatbotReply(m, reply)
  \/ \E m \in Inbound, a \in Adapters, r \in {"true", "false", "throw"} : SendSettle(m, a, r)
  \/ \E m \in Inbound : FanoutReturn(m)

SpecStartup == InitManager /\ [][NextStartup]_vars

\* the chatbot service
NextChatbot ==
  \/ InitializeChatbot
  \/ \E key \in SessionKeys, text \in ChatTexts : ProcessMessage(key, text)
  \/ \E text \in ChatTexts, outcome \in RasaOutcomes, c \in RasaConfidences : RasaReply(text, outcome, c)
  \/ Shutdown
  \/ Tick

SpecChatbot == InitChatbot /\ [][NextChatbot]_vars

\* the chatbot service when timers fire and every request to the engine
\* settles; users need not write and the service need not be shut down
SpecChatbotLive ==
  /\ SpecChatbot
  /\ WF_vars(Tick)
  /\ WF_vars(\E text \in ChatTexts, outcome \in RasaOutcomes, c \in RasaConfidences : RasaReply(text, outcome, c))

(***************************************************************************)
(* Claims about the multistream service (specification Spec)               *)
(***************************************************************************)
EnabledSet == {p \in Platforms : config[p].enabled /\ config[p].rtmpUrl /\ config[p].streamKey}

\* the commands of session object c that run and were never sent a signal
Running(c, p) == proc[c][p].state \in {"run", "started"} /\ ~proc[c][p].signalled

\* call c finishes in this step with the given outcome
Finishes(c, outcome) == call[c].pc = "await" /\ call'[c].pc = outcome

\* C1: a startMultistream call in which at least one target fails to start and
\* at least one starts returns with its session in status 'active', holding
\* exactly the relays that started; a failing target does not end the loop
\* (every enabled target is attempted), and each failure is appended to the
\* error log of the stream when it is handled.
C1_PartialStart ==
  [][\A c \in Calls :
       LET sid == call[c].streamId
           relays == RelayPlatforms(streamInfo'[c])
       IN /\ (Finishes(c, "returned") /\ call'[c].failed # {}) =>
               /\ streamInfo'[c].status = "active"
               /\ relays # {}
               /\ Len(streamInfo'[c].ffmpegProcesses) = Cardinality(relays)
               /\ relays = {p \in Platforms : proc'[c][p].state # "none"}
               /\ relays \cap call'[c].failed = {}
               /\ relays \cup call'[c].failed = EnabledSet
          /\ (call[c].pc = "await" /\ call[c].pending = "rejected" /\ call'[c] # call[c]) =>
               /\ streamStats'[sid] # NoStats
               /\ Len(streamStats'[sid].errors) > 0
               /\ streamStats'[sid].errors[Len(streamStats'[sid].errors)].platform
                    = getEnabledPlatforms[call[c].idx]
               /\ call[c].idx < Len(getEnabledPlatforms) =>
                    (call'[c].pc = "await" /\ call'[c].idx = call[c].idx + 1)
     ]_vars

C1_Witness ==
  \E c \in Calls :
    /\ call[c].pc = "returned"
    /\ call[c].failed # {}
    /\ streamInfo[c].status = "active"
    /\ RelayPlatforms(streamInfo[c]) # {}
    /\ streamStats[call[c].streamId] # NoStats
    /\ \A f \in call[c].failed :
         \E i \in DOMAIN streamStats[call[c].streamId].errors :
           streamStats[call[c].streamId].errors[i].platform = f

SessionExists(c) ==
  /\ streamInfo[c].status \in {"starting", "active"}
  /\ \/ activeStreams[call[c].streamId] = c
     \/ \E p \in RelayPlatforms(streamInfo[c]) : Running(c, p)

\* C3 (as claimed): startMultistream for a registered streamId fails, and in
\* every reachable state there is at most one session per streamId, also when
\* calls for the same id interleave.
C3_OneSessionPerStream ==
  /\ \A c \in Calls : call[c].error = "AlreadyActive" => call[c].pc = "threw"
  /\ \A c1, c2 \in Calls :
       (c1 # c2 /\ SessionExists(c1) /\ SessionExists(c2))
         => call[c1].streamId # call[c2].streamId

\* C4: startMultistream with no enabled target fails with 'No streaming
\* platforms are configured', creates no command, and leaves activeStreams,
\* streamStats, the session objects and the timers as they were.
C4_NoTargetsConfigured ==
  [][\A c \in Calls :
       (call[c].pc = "idle" /\ call'[c].pc # "idle" /\ EnabledSet = {}) =>
          /\ call'[c].pc = "threw"
          /\ call'[c].error = "NoPlatforms"
          /\ UNCHANGED <<activeStreams, streamStats, streamInfo, statsTimers, proc>>
     ]_vars

C4_Witness ==
  /\ EnabledSet = {}
  /\ \E c \in Calls : call[c].pc = "threw" /\ call[c].error = "NoPlatforms"
  /\ \A c \in Calls, p \in Platforms : proc[c][p].state = "none"

\* C5: stopMultistream on a registered streamId calls kill on every relay of
\* the session, whichever kills throw, removes the session and returns true;
\* on an unregistered streamId it returns false and changes nothing; so a
\* second call leaves the state the first call left.
C5_StopIdempotent ==
  \A sid \in StreamIds : \A t1 \in SUBSET KillTargets(Current, sid) :
    LET o == activeStreams[sid]
        S1 == stopMultistream(Current, sid, t1)
    IN /\ o = 0 => (S1 = Current /\ ~stopResult(Current, sid))
       /\ o # 0 => /\ stopResult(Current, sid)
                   /\ S1.activeStreams[sid] = 0
                   /\ \A p \in RelayPlatforms(streamInfo[o]) : S1.proc[o][p].signalled
       /\ ~stopResult(S1, sid)
       /\ \A t2 \in SUBSET Platforms : stopMultistream(S1, sid, t2) = S1

C5_Witness ==
  \E c \in Calls :
    /\ streamInfo[c].status = "active"
    /\ Cardinality(RelayPlatforms(streamInfo[c])) > 1
    /\ \A p \in RelayPlatforms(streamInfo[c]) : proc[c][p].signalled
    /\ activeStreams[call[c].streamId] = 0
    /\ statsTimers[call[c].streamId] = 1
    /\ \A c2 \in Calls : call[c2].error = ""

\* C6 (as claimed): in every reachable state each running relay process
\* belongs to a session that is in activeStreams, also when stopMultistream
\* runs while startMultistream is still starting relays.
C6_RelayOwnedByRegisteredSession ==
  \A c \in Calls, p \in Platforms :
    Running(c, p) => activeStreams[proc[c][p].streamId] = c

AllRelaysDown(c) ==
  /\ RelayPlatforms(streamInfo[c]) # {}
  /\ \A p \in RelayPlatforms(streamInfo[c]) : proc[c][p].state = "exited"

\* C7 (as claimed): after performHealthCheck has run, no active session is
\* left in activeStreams whose relays have all reported 'error' or 'end'.
C7_HealthCheckStopsDeadSession ==
  lastOp.op = "performHealthCheck" =>
    \A sid \in StreamIds :
      (activeStreams[sid] # 0 /\ streamInfo[activeStreams[sid]].status = "active")
        => ~AllRelaysDown(activeStreams[sid])

C9_FifoOneInFlight ==
  /\ Len(sentLog) <= Len(enqueued)
  /\ \A i \in DOMAIN sentLog : sentLog[i].msg = enqueued[i].msg
  /\ Cardinality(inflight) <= 1

\* C10: two consecutive transmissions of the adapter start at least
\* messageRateLimit apart, whatever the pattern of enqueues; messages that
\* were all queued at the same instant are sent at 0, 1, 2, ... intervals
\* after it.
C10_Throttled ==
  /\ \A i \in 2..Len(sentLog) :
       sentLog[i].t - sentLog[i - 1].t >= messageRateLimit
  /\ (\A i \in DOMAIN enqueued : enqueued[i].t = enqueued[1].t) =>
       \A i \in DOMAIN sentLog :
         sentLog[i].t = enqueued[1].t + (i - 1) * messageRateLimit

C10_Witness ==
  /\ Len(enqueued) >= 3
  /\ \A i \in DOMAIN enqueued : enqueued[i].t = enqueued[1].t
  /\ Len(sentLog) >= 3
  /\ sentLog[3].t = enqueued[1].t + 2 * messageRateLimit

\* C11: a transmission that fails (sendMessageImplementation throws or returns
\* false) resolves the future of its own message with false and of no other;
\* the message is not put back on the queue and is never transmitted again;
\* when messages are waiting, a processMessageQueue timer is set one
\* messageRateLimit ahead, and a waiting message always has a pending timer or
\* a transmission in flight that will set one.
C11_FailureIsolated ==
  /\ [][\A m \in Msgs :
          (m \in inflight /\ m \notin inflight' /\ future'[m] = "false") =>
             /\ future[m] = "pending"
             /\ \A m2 \in DOMAIN future \ {m} : future'[m2] = future[m2]
             /\ UNCHANGED <<rateLimitQueue, sentLog, lastMessageTime>>
             /\ rateLimitQueue # <<>> =>
                  timers' = Append(timers, now + messageRateLimit)
       ]_vars
  /\ [](/\ \A i, j \in DOMAIN sentLog : sentLog[i].msg = sentLog[j].msg => i = j
        /\ \A i \in DOMAIN rateLimitQueue :
             \A j \in DOMAIN sentLog : sentLog[j].msg # rateLimitQueue[i]
        /\ rateLimitQueue # <<>> => (timers # <<>> \/ inflight # {}))

C11_Witness ==
  /\ Len(sentLog) >= 2
  /\ enqueued[1].t = enqueued[2].t
  /\ future[sentLog[1].msg] = "false"
  /\ future[sentLog[2].msg] = "true"
  /\ sentLog[2].t = sentLog[1].t + messageRateLimit

(***************************************************************************)
(* Claims about connection supervision and cleanup                         *)
(* (specifications SpecReconnect and SpecQueue)                            *)
(***************************************************************************)

\* C12 (as claimed): while the adapter has not become fully connected again,
\* at most maxReconnectAttempts reconnect attempts are scheduled, also when
\* initialize() succeeds and connectChat() fails on every attempt.
C12_ReconnectBounded ==
  /\ streak <= maxReconnectAttempts
  /\ \A tm \in reconnectTimers : tm.n <= maxReconnectAttempts

\* C13 (as claimed): the n-th consecutive reconnect attempt is scheduled
\* reconnectDelay * 2^(n-1) after the failure that triggered it.
C13_BackoffDoubles ==
  \A tm \in reconnectTimers :
    /\ tm.delay = reconnectDelay * 2^(tm.n - 1)
    /\ tm.due - tm.delay <= now

\* C14 (as claimed): once cleanup() has completed, no reconnect timer of the
\* adapter fires (a pending timer is only ever removed by firing).
C14_NoReconnectAfterCleanup ==
  [][cleaned => reconnectTimers \subseteq reconnectTimers']_vars

\* C15 (as claimed): after cleanup() the queue is empty, the future of every
\* message that was queued is resolved, and no transmission starts.
C15_CleanupRejectsQueued ==
  cleaned =>
    /\ rateLimitQueue = <<>>
    /\ \A m \in DOMAIN future : future[m] = "pending" => m \in inflight

(***************************************************************************)
(* Claims about the social media manager (specification SpecManager)       *)
(***************************************************************************)

\* the adapters a response to a message from `source` is to be sent on
Eligible(source) ==
  {a \in Adapters :
     /\ platformChat[a]
     /\ AdapterConfig(a).chatbotEnabled
     /\ (a # source \/ AdapterConfig(a).allowSelfResponse)}

\* C16: when a response to a message from platform A is fanned out,
\* sendMessage is called on exactly the adapters that are chat-connected and
\* chatbotEnabled, without A unless A allows self-response, and on no other.
C16_FanoutExclusion ==
  [][\A m \in Inbound :
       (handler[m].pc = "processMessage" /\ handler'[m].pc = "allSettled") =>
          /\ {a \in Adapters : delivery'[m][a] = "pending"} = Eligible(handler[m].platform)
          /\ \A a \in Adapters \ Eligible(handler[m].platform) : delivery'[m][a] = "none"
          /\ \A m2 \in Inbound \ {m} : delivery'[m2] = delivery[m2]
     ]_vars

C16_Witness ==
  \E m1, m2 \in Inbound :
    /\ handler[m1].pc = "allSettled" /\ handler[m1].platform = "discord"
    /\ delivery[m1]["discord"] # "none" /\ delivery[m1]["twitch"] # "none"
    /\ handler[m2].pc = "allSettled" /\ handler[m2].platform = "twitch"
    /\ delivery[m2]["twitch"] = "none" /\ delivery[m2]["discord"] # "none"

\* C17: a sendMessage of the fan-out that fails changes the outcome of no
\* other send, of this or of another response, and ends no call; the other
\* sends of the response were all started with it and settle on their own,
\* also while one send stays pending; handleIncomingMessage never throws.
C17_FanoutIsolated ==
  /\ [][\A m \in Inbound, a \in Adapters :
          (delivery[m][a] = "pending" /\ delivery'[m][a] = "failed") =>
             /\ \A m2 \in Inbound, a2 \in Adapters :
                  <<m2, a2>> # <<m, a>> => delivery'[m2][a2] = delivery[m2][a2]
             /\ handler' = handler
       ]_vars
  /\ [](\A m \in Inbound :
          /\ handler[m].pc \in {"idle", "processMessage", "allSettled", "returned"}
          /\ handler[m].pc # "allSettled" => delivery[m] = NoDelivery)

C17_Witness ==
  \E m \in Inbound :
    /\ handler[m].pc = "allSettled"
    /\ delivery[m]["twitch"] = "failed"
    /\ delivery[m]["discord"] = "sent"
    /\ delivery[m]["telegram"] = "pending"

Min(x, y) == IF x < y THEN x ELSE y

\* C18: messageHistory never holds more than maxMessageHistory messages, and
\* it holds the most recent min(inbound, maxMessageHistory) messages in the
\* order of arrival, so a push on a full history evicts exactly the oldest.
C18_RingBuffer ==
  LET k == Min(inbound, maxMessageHistory)
  IN /\ Len(messageHistory) <= maxMessageHistory
     /\ messageHistory = [i \in 1..k |-> inbound - k + i]

C18_Witness ==
  /\ inbound > maxMessageHistory
  /\ Len(messageHistory) = maxMessageHistory
  /\ messageHistory[1] = inbound - maxMessageHistory + 1

(***************************************************************************)
(* Claims about the chatbot service (specification SpecChatbot)            *)
(***************************************************************************)

\* C19 (as claimed): whatever processMessage returns is either the static
\* fallback with confidence 0 or a response whose confidence is at least the
\* configured threshold; it is the fallback when the service is not
\* connected, when sendToRasa fails and when there is no usable response.
C19_FallbackOrConfident ==
  lastResponse.kind # "none" =>
    \/ lastResponse.kind = "fallback" /\ lastResponse.confidence = 0
    \/ /\ lastResponse.kind \in {"engine", "cached"}
       /\ lastResponse.confidence >= confidenceThreshold

\* C20 (as claimed): every entry of the response cache has a confidence
\* strictly above the configured threshold, whatever threshold is configured.
C20_CacheAboveThreshold ==
  \A i \in DOMAIN responseCache : responseCache[i].confidence > confidenceThreshold

\* a step in which processMessage is called with this text and runs up to its
\* return or to the await of sendToRasa
Processed(text) ==
  /\ text \notin pendingRasa
  /\ \/ pendingRasa' = pendingRasa \cup {text}
     \/ /\ pendingRasa' = pendingRasa
        /\ lastResponse' # lastResponse
        /\ lastResponse'.text = text

\* the entries of the cache that match the text and are not expired
LiveMatches(text) ==
  {i \in DOMAIN responseCache :
     /\ Matches(responseCache[i].pattern, text)
     /\ now - responseCache[i].timestamp <= cacheExpiryTime}

\* C21 (as claimed): a cache entry is never returned once more than the TTL
\* has elapsed since it was stored, and a message that matches an entry that
\* is not expired is answered from the cache with no request to the engine.
C21_CacheTtl ==
  [][\A text \in ChatTexts :
       Processed(text) =>
         /\ lastResponse'.kind = "cached" /\ pendingRasa' = pendingRasa
               => now - lastResponse'.stored <= cacheExpiryTime
         /\ LiveMatches(text) # {}
               => /\ pendingRasa' = pendingRasa
                  /\ lastResponse'.kind = "cached"]_vars

(***************************************************************************)
(* More claims about the outbound queue (specification SpecQueue)          *)
(***************************************************************************)

\* the messages that are or were on the queue
OnQueue == {enqueued[i].msg : i \in DOMAIN enqueued}
Transmitted == {sentLog[i].msg : i \in DOMAIN sentLog}
Waiting == {rateLimitQueue[i] : i \in DOMAIN rateLimitQueue}

\* C28: sendMessage on a chat-connected adapter puts exactly one item on the
\* adapter's queue and returns a pending future; on an adapter that is not
\* chat-connected it returns false at once and neither enqueues nor transmits.
\* Nothing is transmitted that did not go through the queue, and the future
\* of a queued message is resolved only when its transmission has settled.
C28_ThroughOwnQueue ==
  /\ [][Len(future') = Len(future) + 1 =>
         LET m == Len(future')
         IN IF chatConnected
              THEN /\ future'[m] = "pending"
                   /\ enqueued' = Append(enqueued, [msg |-> m, t |-> now])
                   /\ Waiting' \cup inflight' = Waiting \cup inflight \cup {m}
                   /\ Len(rateLimitQueue') + Cardinality(inflight')
                        = Len(rateLimitQueue) + Cardinality(inflight) + 1
                   /\ \A m2 \in DOMAIN future : future'[m2] = future[m2]
              ELSE /\ future'[m] = "false"
                   /\ UNCHANGED <<rateLimitQueue, inflight, sentLog, enqueued,
                                  timers, lastMessageTime>>
     ]_vars
  /\ [](/\ Transmitted \subseteq OnQueue
        /\ Waiting \cup inflight \subseteq OnQueue
        /\ \A m \in OnQueue :
             future[m] # "pending" => m \in Transmitted /\ m \notin inflight
        /\ \A m \in DOMAIN future \ OnQueue : future[m] = "false")

\* a call on a connected adapter was queued behind another message and its
\* future resolved after its transmission; a call on a disconnected adapter
\* was refused
C28_Witness ==
  /\ Len(future) = 3
  /\ Cardinality(OnQueue) = 2
  /\ Len(sentLog) >= 2
  /\ \E m \in OnQueue : future[m] = "true" /\ sentLog[2].msg = m
  /\ \E m \in DOMAIN future \ OnQueue : future[m] = "false"

(***************************************************************************)
(* Claims about the error log (specification SpecErrorLog)                 *)
(***************************************************************************)

\* C25: the error log of a session never holds more than 10 errors, and it
\* holds the most recent min(count, 10) of the errors recorded, in the order
\* in which they were recorded.
C25_ErrorLogBounded ==
  \A sid \in StreamIds :
    streamStats[sid] # NoStats =>
      LET errors == streamStats[sid].errors
          recorded == streamStats[sid].recorded
      IN /\ Len(errors) <= 10
         /\ Len(errors) = Min(Len(recorded), 10)
         /\ errors = SubSeq(recorded, Len(recorded) - Len(errors) + 1, Len(recorded))

\* eleven errors were recorded for one session, of two targets, and the
\* oldest is gone
C25_Witness ==
  \E sid \in StreamIds :
    /\ streamStats[sid] # NoStats
    /\ Len(streamStats[sid].recorded) = 11
    /\ Len(streamStats[sid].errors) = 10
    /\ streamStats[sid].recorded[1].platform # streamStats[sid].recorded[2].platform
    /\ streamStats[sid].errors[1] = streamStats[sid].recorded[2]

(***************************************************************************)
(* Scenario of the multistream service (specification Spec)                *)
(***************************************************************************)

\* three targets are configured and one of them lacks its stream key
OneLacksCredentials ==
  /\ Cardinality(Platforms) = 3
  /\ Cardinality({p \in Platforms : config[p].streamKey}) = 2

C30_NotBackToTelegram ==
  [][\A m \in Inbound :
       (/\ handler[m].pc = "processMessage" /\ handler'[m].pc = "allSettled"
        /\ handler[m].platform = "telegram"
        /\ chatbotEnv
        /\ \A a \in {"discord", "twitch", "telegram"} : platformChat[a]) =>
           /\ delivery'[m]["discord"] = "pending"
           /\ delivery'[m]["twitch"] = "pending"
           /\ delivery'[m]["telegram"] = "none"
     ]_vars

(***************************************************************************)
(* Claims about the sessions of the chatbot service                        *)
(* (specification SpecChatbotLive)                                         *)
(***************************************************************************)

\* the session of the key has had no message for longer than the timeout
IdleSession(key) ==
  \E e \in sessionStore : e.key = key /\ now - e.lastActivity > sessionTimeout

HasSession(store, key) == \E e \in store : e.key = key

\* C22 (as claimed): a session that has had no message for longer than the
\* idle timeout is eventually removed from the session map while the service
\* keeps running, and a session with activity inside the timeout is never
\* removed.
C22_IdleEviction ==
  /\ \A key \in SessionKeys :
       [](IdleSession(key) /\ rasaIsConnected
            => <>(~HasSession(sessionStore, key) \/ ~rasaIsConnected))
  /\ [][\A e \in sessionStore :
          now - e.lastActivity <= sessionTimeout => HasSession(sessionStore', e.key)
       ]_vars

(***************************************************************************)
(* Claims about the adapter variants (specification SpecReconnect)         *)
(***************************************************************************)

\* C23 (as claimed): an initialize() that fails for missing credentials is
\* never retried automatically: no reconnect attempt is scheduled as a
\* consequence of it, neither at startup nor inside a reconnect attempt.
C23_ConfigErrorNotRetried ==
  \A tm \in reconnectTimers : tm.cause # "credentials"

\* C26 (as claimed): disconnectChat() is idempotent for every variant: in
\* every state, and however the call to the platform ends, the adapter is
\* not chat-connected after a call, and a second call leaves the adapter as
\* the first call left it.
C26_DisconnectIdempotent ==
  \A first \in BOOLEAN, second \in BOOLEAN :
    LET R1 == disconnectChat(CurrentR, first)
        R2 == disconnectChat(R1, second)
    IN /\ ~R1.chatConnected
       /\ R2 = R1

\* the steps of the chat axis and of the stream axis
ChatStep ==
  \/ \E ok \in BOOLEAN \X BOOLEAN : InitializePlatform(ok[1], ok[2])
  \/ \E tm \in reconnectTimers, ok \in BOOLEAN \X BOOLEAN : ReconnectTimerFire(tm, ok[1], ok[2])
  \/ ChatAuthTimer
  \/ \E stopOk \in BOOLEAN : DisconnectChatCall(stopOk)
  \/ HandleDisconnection

StreamStep == StartStream \/ StreamStarted \/ StreamEnded \/ StopStream

\* C27: connectChat(), disconnectChat() and a chat disconnection leave
\* isStreaming and the relay process unchanged; startStream(), stopStream()
\* and the events of the relay process leave chatConnected and the chat
\* connection unchanged.
C27_IndependentAxes ==
  [][/\ ChatStep => UNCHANGED <<isStreaming, ffmpegProcess>>
     /\ StreamStep => UNCHANGED <<chatConnected, isConnected, client, closePending,
                                  authTimer, reconnectTimers>>
    ]_vars

\* C27: a Twitch adapter has been in all four combinations of
\* (chatConnected, isStreaming)
C27_Witness ==
  /\ variant = "twitch"
  /\ axes = BOOLEAN \X BOOLEAN

\* C24 (as claimed): no failure of an adapter terminates the process: the
\* uncaughtException handler never runs.
C24_NoFailureExits == ~exited

(***************************************************************************)
(* Claims about the status of the relays (specification Spec)              *)
(***************************************************************************)
RelayStatuses == {"starting", "connected", "error", "ended"}

\* the status recorded for relay p of the stream; a record without an entry
\* for p is a relay that is starting
RecordedStatus(stats, p) ==
  IF stats.platforms[p] = "none" THEN "starting" ELSE stats.platforms[p]

\* no session is registered for the stream in this step
SameSession(sid) == ~(activeStreams'[sid] # activeStreams[sid] /\ activeStreams'[sid] # 0)

\* the relays getStreamStatus reports have a status of the state machine
C31_ReportedValues ==
  \A sid \in StreamIds :
    LET r == getStreamStatus(Current, sid)
    IN r.status # "null" =>
         \A i \in DOMAIN r.platforms :
           /\ r.platforms[i].status \in RelayStatuses
           /\ r.stats # NoStats =>
                r.platforms[i].status = RecordedStatus(r.stats, r.platforms[i].platform)

\* the recorded status of a relay changes only from starting to connected and
\* from connected to error or ended
C31_Transitions ==
  \A sid \in StreamIds, p \in Platforms :
    (/\ streamStats[sid] # NoStats
     /\ streamStats'[sid] # NoStats
     /\ SameSession(sid)
     /\ RecordedStatus(streamStats'[sid], p) # RecordedStatus(streamStats[sid], p)) =>
       <<RecordedStatus(streamStats[sid], p), RecordedStatus(streamStats'[sid], p)>>
          \in {<<"starting", "connected">>, <<"connected", "error">>,
               <<"connected", "ended">>}

\* C31 (as claimed): the status of a relay is one of starting, connected,
\* error and ended, it changes only along starting -> connected ->
\* {error | ended}, error and ended are final, and getStreamStatus reports for
\* each relay the status its process events have reached.
C31_RelayStateMachine == []C31_ReportedValues /\ [][C31_Transitions]_vars

\* C32 (as claimed): a startMultistream call that is rejected, because the
\* streamId is registered or because no target is configured, has no effect
\* on the sessions that exist: the registry, the status of every session and
\* every relay process are as before, and no process was sent a signal.
C32_RejectedStartNoEffect ==
  [][\A c \in Calls :
       (/\ call[c].pc = "idle"
        /\ call'[c].pc = "threw"
        /\ call'[c].error \in {"AlreadyActive", "NoPlatforms"}) =>
          UNCHANGED <<activeStreams, streamInfo, proc>>
    ]_vars

\* C34 (as claimed): streamStats has a record for every streamId that is in
\* activeStreams, also when a session is stopped and a new one is started
\* under the same id before the deletion timer of the stop has fired.
C34_ActiveHasStats ==
  \A sid \in StreamIds : activeStreams[sid] # 0 => streamStats[sid] # NoStats

(***************************************************************************)
(* Claims about the hooks of the RTMP server (specification SpecPublish)   *)
(***************************************************************************)

\* the hooks of the stream have all been handled: nobody publishes, no
\* delayed start is pending and no startMultistream call is in progress
Settled(sid) ==
  /\ sid \notin publishing
  /\ startDelay[sid] = 0
  /\ \A c \in Calls : call[c].streamId = sid => call[c].pc # "await"

\* C33 (as claimed): once the last unpublish of a stream has been handled and
\* every delayed start has fired, no session of the stream is registered and
\* no relay process of the stream is running.
C33_NoSessionWithoutPublisher ==
  \A sid \in StreamIds :
    Settled(sid) =>
      /\ activeStreams[sid] = 0
      /\ \A c \in Calls, p \in Platforms :
           proc[c][p].streamId = sid => ~Running(c, p)

(***************************************************************************)
(* Claims about an explicit disconnectChat() (specification SpecReconnect) *)
(***************************************************************************)

\* the step runs the 'close' handler for the socket disconnectChat() closed
CloseOfDisconnect == chatOff /\ closePending /\ ~closePending'

\* C35 (as claimed): once disconnectChat() has returned, chatConnected stays
\* false until the owner connects the adapter again, and the 'close' event of
\* the socket it closed schedules no reconnect attempt.
C35_DisconnectIsFinal ==
  /\ [](chatOff => ~chatConnected)
  /\ [][CloseOfDisconnect => reconnectTimers' \subseteq reconnectTimers]_vars

\* C36 (as claimed): at most one backoff timer of the adapter is pending.
C36_OneReconnectPending == Cardinality(reconnectTimers) <= 1

(***************************************************************************)
(* Claims about the reconnect counter (specification SpecReconnect)        *)
(***************************************************************************)

\* the step runs an initialize() that reaches handleConnection()
Connects ==
  /\ credentials
  /\ \/ \E chatOk \in BOOLEAN : InitializePlatform(TRUE, chatOk)
     \/ \E tm \in reconnectTimers, chatOk \in BOOLEAN : ReconnectTimerFire(tm, TRUE, chatOk)

\* the reconnect attempts the step schedules
Scheduled == Cardinality(reconnectTimers' \ reconnectTimers)

\* C40: the counter stays within 0..maxReconnectAttempts; a step adds one to
\* it for each reconnect attempt it schedules, and the counter restarts from 0
\* in the steps that run handleConnection(), and in no other step.
C40_CounterInvariant ==
  /\ [](reconnectAttempts \in 0..maxReconnectAttempts)
  /\ [][reconnectAttempts' = (IF Connects THEN 0 ELSE reconnectAttempts) + Scheduled]_vars

\* the counter has reached the limit with an attempt scheduled
C40_Witness == reconnectAttempts = maxReconnectAttempts /\ reconnectTimers # {}

(***************************************************************************)
(* Claims about the liveness of the queue (specification SpecQueueLive)    *)
(***************************************************************************)

\* a queued message is waiting for a transmission to settle or for a timer
Driven == rateLimitQueue # <<>> => inflight # {} \/ timers # <<>>

\* the future of message m is pending / has been resolved
Pending(m) == Len(future) >= m /\ future[m] = "pending"
Resolved(m) == Len(future) >= m /\ future[m] \in {"true", "false"}

\* C37: the queue is never left with a message and neither a transmission in
\* flight nor a drain timer, and the future of every message that sendMessage
\* has enqueued is eventually resolved, with the result of the send or false.
C37_QueueLiveness ==
  /\ []Driven
  /\ \A m \in Msgs : Pending(m) ~> Resolved(m)

\* a message waits in the queue for a drain timer alone, after the future of
\* an earlier message was resolved
C37_Witness ==
  /\ rateLimitQueue # <<>>
  /\ inflight = {}
  /\ timers # <<>>
  /\ \E m \in Msgs : Resolved(m) /\ \E i \in DOMAIN enqueued : enqueued[i].msg = m

(***************************************************************************)
(* Claims about the startup of the server (specification SpecStartup)      *)
(***************************************************************************)

\* C38 (as claimed): when initializeAsyncServices() has ended, also after
\* the chatbot failed to initialize, the router has initialized every
\* configured adapter.
C38_ChatSurvivesEngineFailure ==
  boot \in {"done", "failed"} => /\ attempted = Adapters
                                 /\ settled = Adapters

(***************************************************************************)
(* Claims about the order of the router's steps (specification SpecManager)*)
(***************************************************************************)

\* the positions of the events of one kind for message m
EventsOf(kind, m) == {i \in DOMAIN events[m] : events[m][i] = kind}

\* C39: every inbound message has been stored in the history and emitted to
\* the observers exactly once, in this order, and a request for a response
\* to it and the fan-out of the response come after both, with or without a
\* chatbot and whatever the chatbot answered.
C39_StoreEmitThenRespond ==
  \A m \in Inbound :
    /\ m <= inbound => /\ Cardinality(EventsOf("stored", m)) = 1
                       /\ Cardinality(EventsOf("emitted", m)) = 1
    /\ \A s \in EventsOf("stored", m), e \in EventsOf("emitted", m) : s < e
    /\ \A r \in EventsOf("requested", m) \cup EventsOf("fanned", m) :
         \E e \in EventsOf("emitted", m) : e < r

\* messages were handled without a chatbot, with a chatbot that failed and
\* with one whose response was fanned out
C39_Witness ==
  /\ inbound = 3
  /\ EventsOf("requested", 1) = {}
  /\ handler[2] = DoneHandler /\ EventsOf("requested", 2) # {} /\ EventsOf("fanned", 2) = {}
  /\ EventsOf("fanned", 3) # {}
====
